---------------------------- MODULE Spec2Model ----------------------------
(***************************************************************************)
(* CEX: content-addressed pipeline execution engine.                       *)
(*                                                                         *)
(* The model follows the live call path                                    *)
(*   pipeline.namespace.Namespace.run                                      *)
(*     -> execution.cex.CexExecutor.execute_pipeline                       *)
(*     -> execution.namespace.NamespaceExecutor (constructor, prepare,     *)
(*        execute)                                                         *)
(*     -> execution.node.NodeExecutor                                      *)
(* with the matching of execution.common.DataInformation, the traversal    *)
(* of execution.utils.dfs and the serializers of data.serializers.         *)
(***************************************************************************)
EXTENDS Integers, Sequences, FiniteSets, TLC

(***************************************************************************)
(* Bounds of the model.                                                    *)
(***************************************************************************)
\* Number of consecutive Namespace.run() calls of one process.
MaxRuns == 3
\* Number of injected failures (user function raising, bad return type,
\* failing save) in one behaviour.
MaxFaults == 1
\* File contents and produced values range over 0..MaxVal.
MaxVal == 1

Values == 0..MaxVal

(***************************************************************************)
(* Optional values: <<>> is Python's None, <<v>> a present value.          *)
(***************************************************************************)
None == <<>>
Some(v) == <<v>>
IsNone(o) == o = <<>>
Get(o) == o[1]

\* Type tokens: annotations "int" and "dict"; NoneT is the annotation None,
\* which is also the type of a file input (DataInformation(stem, None, path));
\* EmptyT is inspect._empty, a parameter or return without annotation.
NoneT == "None"
EmptyT == "empty"

\* ExecutionState
UNINITIALIZED == "UNINITIALIZED"
READY == "READY"
SKIPPED == "SKIPPED"
RUNNING == "RUNNING"
EXECUTED == "EXECUTED"
ERROR == "ERROR"

(***************************************************************************)
(* Sequence helpers.                                                       *)
(***************************************************************************)
Last(s) == s[Len(s)]
Front(s) == SubSeq(s, 1, Len(s) - 1)
Range(s) == {s[i] : i \in 1..Len(s)}

RECURSIVE Filter(_, _)
\* the elements of s that belong to the set keep, in order
Filter(s, keep) ==
    IF s = <<>> THEN <<>>
    ELSE IF Head(s) \in keep THEN <<Head(s)>> \o Filter(Tail(s), keep)
    ELSE Filter(Tail(s), keep)

RECURSIVE AppendNew(_, _)
\* s followed by the elements of t not already present: insertion into an
\* ordered dictionary (the node table of networkx.DiGraph)
AppendNew(s, t) ==
    IF t = <<>> THEN s
    ELSE IF Head(t) \in Range(s) THEN AppendNew(s, Tail(t))
    ELSE AppendNew(Append(s, Head(t)), Tail(t))

(***************************************************************************)
(* Declared pipelines.  A node declaration carries                         *)
(*   params   the function's parameters, in order, each [name, type]       *)
(*   aliases  input_aliases: parameter name -> list of alternative names   *)
(*   outName  output_name (None: the node has no output_name)              *)
(*   outType  the return annotation                                        *)
(*   dir      the files of input_directory as iterdir lists them, each     *)
(*            [stem, ext] (None: no input_directory)                       *)
(*   succ     subsequent_nodes, in declaration order                       *)
(* and a namespace carries the root nodes and nsTypes, the serializer       *)
(* bound to each type with add_serializer_by_type.                         *)
(***************************************************************************)
Param(n, t) == [name |-> n, type |-> t]
File(s, e) == [stem |-> s, ext |-> e]

NodeDecl(ps, al, on, ot, d, sc) ==
    [params |-> ps, aliases |-> al, outName |-> on, outType |-> ot,
     dir |-> d, succ |-> sc]

NoAliases == <<>>

\* examples/example.py: one -> double -> square, every output named "result"
GraphSequential ==
    [name |-> "Sequential", roots |-> <<1>>, nsTypes |-> ("int" :> "json"),
     nodes |-> <<
       NodeDecl(<<>>, NoAliases, Some("result"), "int", None, <<2>>),
       NodeDecl(<<Param("y", "int")>>, ("y" :> <<"result">>),
                Some("result"), "int", None, <<3>>),
       NodeDecl(<<Param("z", "int")>>, ("z" :> <<"result">>),
                Some("result"), "int", None, <<>>) >>]

\* examples/branching.py diamond, its head reading a file of its
\* input_directory through a parameter annotated None
GraphDiamond ==
    [name |-> "Diamond", roots |-> <<1>>, nsTypes |-> ("int" :> "json"),
     nodes |-> <<
       NodeDecl(<<Param("src", NoneT)>>, NoAliases, Some("raw"), "int",
                Some(<<File("src", ".csv")>>), <<2, 3>>),
       NodeDecl(<<Param("data", "int")>>, ("data" :> <<"raw">>),
                Some("tA"), "int", None, <<4>>),
       NodeDecl(<<Param("data", "int")>>, ("data" :> <<"raw">>),
                Some("tB"), "int", None, <<4>>),
       NodeDecl(<<Param("rA", "int"), Param("rB", "int")>>,
                ("rA" :> <<"tA">>) @@ ("rB" :> <<"tB">>),
                Some("out"), "int", None, <<>>) >>]

\* examples/namespacing.py: one node fed by input/data.json, annotated dict
GraphFileInput ==
    [name |-> "FileInput", roots |-> <<1>>, nsTypes |-> ("int" :> "json"),
     nodes |-> <<
       NodeDecl(<<Param("data", "dict")>>, NoAliases, Some("copy"), "int",
                Some(<<File("data", ".json")>>), <<>>) >>]

\* two predecessors emit "x" of the same type into one parameter x
GraphAmbiguous ==
    [name |-> "Ambiguous", roots |-> <<1, 2>>, nsTypes |-> ("int" :> "json"),
     nodes |-> <<
       NodeDecl(<<>>, NoAliases, Some("x"), "int", None, <<3>>),
       NodeDecl(<<>>, NoAliases, Some("x"), "int", None, <<3>>),
       NodeDecl(<<Param("x", "int")>>, NoAliases, Some("y"), "int",
                None, <<>>) >>]

\* a root followed by a two-node cycle
GraphCycle ==
    [name |-> "Cycle", roots |-> <<1>>, nsTypes |-> ("int" :> "json"),
     nodes |-> <<
       NodeDecl(<<>>, NoAliases, Some("r"), "int", None, <<2>>),
       NodeDecl(<<Param("r", "int")>>, NoAliases, Some("a"), "int",
                None, <<3>>),
       NodeDecl(<<Param("a", "int")>>, NoAliases, Some("b"), "int",
                None, <<2>>) >>]

\* a producer of "r" followed by a consumer whose parameter x nothing feeds
GraphUnsatisfied ==
    [name |-> "Unsatisfied", roots |-> <<1>>, nsTypes |-> ("int" :> "json"),
     nodes |-> <<
       NodeDecl(<<>>, NoAliases, Some("r"), "int", None, <<2>>),
       NodeDecl(<<Param("x", "int")>>, NoAliases, Some("y"), "int",
                None, <<>>) >>]

\* a node whose function has a parameter without type annotation
GraphUnannotated ==
    [name |-> "Unannotated", roots |-> <<1>>, nsTypes |-> ("int" :> "json"),
     nodes |-> <<
       NodeDecl(<<Param("p", EmptyT)>>, NoAliases, Some("q"), "int",
                None, <<>>) >>]

\* two predecessors emit "x_from_A" and "x" of the same type into a
\* successor whose parameter x is aliased to "x_from_A"
GraphAliased ==
    [name |-> "Aliased", roots |-> <<1, 2>>, nsTypes |-> ("int" :> "json"),
     nodes |-> <<
       NodeDecl(<<>>, NoAliases, Some("x_from_A"), "int", None, <<3>>),
       NodeDecl(<<>>, NoAliases, Some("x"), "int", None, <<3>>),
       NodeDecl(<<Param("x", "int")>>, ("x" :> <<"x_from_A">>), Some("y"),
                "int", None, <<>>) >>]

\* two roots, each with a parameter nothing feeds
GraphTwoDefects ==
    [name |-> "TwoDefects", roots |-> <<1, 2>>, nsTypes |-> ("int" :> "json"),
     nodes |-> <<
       NodeDecl(<<Param("a", "int")>>, NoAliases, Some("u"), "int", None, <<>>),
       NodeDecl(<<Param("b", "int")>>, NoAliases, Some("v"), "int", None,
                <<>>) >>]

\* a root with a parameter nothing feeds, and a root with a parameter of a
\* type no serializer is bound to
GraphMixedDefects ==
    [name |-> "MixedDefects", roots |-> <<1, 2>>,
     nsTypes |-> ("int" :> "json"),
     nodes |-> <<
       NodeDecl(<<Param("a", "int")>>, NoAliases, Some("u"), "int", None, <<>>),
       NodeDecl(<<Param("b", "dict")>>, NoAliases, Some("v"), "int", None,
                <<>>) >>]

\* one node without output_name that reads a file of its input_directory
\* through a parameter annotated None
GraphSink ==
    [name |-> "Sink", roots |-> <<1>>, nsTypes |-> ("int" :> "json"),
     nodes |-> <<
       NodeDecl(<<Param("src", NoneT)>>, NoAliases, None, NoneT,
                Some(<<File("src", ".csv")>>), <<>>) >>]

\* one node whose two parameters are both aliased to the one file of its
\* input_directory
GraphDoubleBinding ==
    [name |-> "DoubleBinding", roots |-> <<1>>, nsTypes |-> ("int" :> "json"),
     nodes |-> <<
       NodeDecl(<<Param("a", NoneT), Param("b", NoneT)>>,
                ("a" :> <<"src">>) @@ ("b" :> <<"src">>),
                Some("r"), "int", Some(<<File("src", ".csv")>>), <<>>) >>]

\* a producer of "r" whose one consumer was given to continue_with twice
GraphDoubleEdge ==
    [name |-> "DoubleEdge", roots |-> <<1>>, nsTypes |-> ("int" :> "json"),
     nodes |-> <<
       NodeDecl(<<>>, NoAliases, Some("r"), "int", None, <<2, 2>>),
       NodeDecl(<<Param("r", "int")>>, NoAliases, Some("y"), "int",
                None, <<>>) >>]

Graphs ==
    {GraphSequential, GraphDiamond, GraphFileInput, GraphAmbiguous,
     GraphCycle, GraphUnsatisfied, GraphUnannotated, GraphAliased,
     GraphTwoDefects, GraphMixedDefects, GraphSink, GraphDoubleBinding,
     GraphDoubleEdge}

NodesOf(G) == 1..Len(G.nodes)

(***************************************************************************)
(* Graph construction.                                                     *)
(***************************************************************************)
RECURSIVE dfs(_, _, _, _)
\* execution.utils.dfs with the callback of build_graph: the nodes of the
\* DiGraph in insertion order.  The callback adds the popped node and then
\* one edge per successor, also for a node popped a second time.
dfs(G, queue, visited, order) ==
    IF queue = <<>> THEN order
    ELSE LET node == Last(queue)
             next == G.nodes[node].succ
             order1 == AppendNew(order, <<node>> \o next)
         IN IF node \in visited
            THEN dfs(G, Front(queue), visited, order1)
            ELSE dfs(G, Front(queue) \o next, visited \cup {node}, order1)

\* NamespaceExecutor.build_graph: node order and adjacency of the DiGraph
build_graph(G) ==
    LET order == dfs(G, G.roots, {}, <<>>)
    IN [order |-> order,
        adj |-> [n \in Range(order) |-> AppendNew(<<>>, G.nodes[n].succ)]]

RECURSIVE Lower(_, _, _)
\* one generation of networkx.topological_generations: every child met
\* loses one unit of in-degree; a child reaching zero joins the next
\* generation
Lower(children, indeg, zero) ==
    IF children = <<>> THEN [indeg |-> indeg, zero |-> zero]
    ELSE LET c == Head(children)
             d == indeg[c] - 1
         IN Lower(Tail(children), [indeg EXCEPT ![c] = d],
                  IF d = 0 THEN Append(zero, c) ELSE zero)

RECURSIVE ChildrenOf(_, _)
ChildrenOf(adj, gen) ==
    IF gen = <<>> THEN <<>>
    ELSE adj[Head(gen)] \o ChildrenOf(adj, Tail(gen))

RECURSIVE Generations(_, _, _, _)
Generations(adj, zero, indeg, out) ==
    IF zero = <<>>
    THEN [order |-> out, cyclic |-> \E v \in DOMAIN indeg : indeg[v] > 0]
    ELSE LET r == Lower(ChildrenOf(adj, zero), indeg, <<>>)
         IN Generations(adj, r.zero, r.indeg, out \o zero)

\* networkx.topological_sort(self.graph): the nodes it yields, in order,
\* and whether the iteration then raises NetworkXUnfeasible (a cycle)
topological_sort(G) ==
    LET bg == build_graph(G)
        V == Range(bg.order)
        indeg == [v \in V |->
                    Cardinality({u \in V : v \in Range(bg.adj[u])})]
        zero == Filter(bg.order, {v \in V : indeg[v] = 0})
    IN Generations(bg.adj, zero, indeg, <<>>)


(***************************************************************************)
(* State.                                                                  *)
(***************************************************************************)
VARIABLES
    g,          \* the declared pipeline of the namespace
    graph,      \* NamespaceExecutor.graph in topological order: [order, cyclic]
    cached,     \* is_cached of every node
    run,        \* number of Namespace.run() calls started so far
    phase,      \* "idle", "prepare", "execute" or "done" (run() returned);
                \* "sync" inside node.execute, before a flush that fails;
                \* "with_value" inside node.execute, after the function
                \* returned a value that is not of the declared type
    pos,        \* index of the next node of the topological iteration
    state,      \* NodeExecutor.state of every node
    inbox,      \* available_inputs of the running loop: node -> list
    args,       \* resolved inputs of the node that is RUNNING
    meta,       \* NodeMeta of every node, in memory
    disk,       \* the metadata as last written to .cex/cex.json
    files,      \* contents of the files on disk: path -> optional content
    invoked,    \* nodes whose user function was called in this run
    wrote,      \* nodes that wrote an output file or metadata in this run
    failure,    \* the exception raised inside execute_pipeline, or "none"
    logged,     \* what execute_pipeline logged: "none", "validation", "runtime"
    raised,     \* the exception that left Namespace.run(), or "none"
    faults,     \* failures injected so far
    changed,    \* <<r, path>>: the user changed path after run r returned
    prevOk,     \* the previous run ended without any exception
    atExec,     \* per node: its NodeMeta and output file when it was EXECUTED
    ns,         \* the Namespace whose run() is or was last called: [name, path]
    rec,        \* index in CexMeta.namespaces of the record NodeExecutor.meta uses
    namespaces, \* CexMeta.namespaces: list of [name, nodes, disk]; the entry at
                \* rec is refreshed from meta and disk when another run starts
    trees,      \* the files under each namespace path other than ns.path
    ran,        \* names of the namespaces whose run() was called
    call,       \* a function applied on its own: [op, ...arguments], or <<>>
    ret,        \* what the function applied in call returned, or <<>>
    cex,        \* pipeline.cex, the engine the user registers serializers
                \* with: [serilizers_by_type, default_serializers]
    atStart     \* the NodeMeta of every node as the current run found them

vars ==
    <<g, graph, cached, run, phase, pos, state, inbox, args, meta, disk, files,
      invoked, wrote, failure, logged, raised, faults, changed, prevOk,
      atExec, ns, rec, namespaces, trees, ran, call, ret, cex, atStart>>

(***************************************************************************)
(* Files and hashes.                                                       *)
(***************************************************************************)
\* <root>/<namespace.path>/<output_directory>/<output_name><ext>, with
\* output_directory defaulting to the node's name
OutPath(n) == <<"out", n, "">>
\* <root>/<namespace.path>/<input_directory>/<stem><ext>
InPath(n, stem) == <<"in", n, stem>>

\* execution.utils.get_file_hash: None for a missing path, else the
\* SHA-256 digest of the content
get_file_hash(fs, path) ==
    IF IsNone(fs[path]) THEN None ELSE Some(<<"sha256", Get(fs[path])>>)

(***************************************************************************)
(* DataInformation.                                                        *)
(***************************************************************************)
DataInformation(name, type, path) ==
    [name |-> name, type |-> type, path |-> path, hash |-> None,
     value |-> None, serializer |-> None]

\* DataInformation.update_hash / get_hash (called with_hash by the
\* executors): the hash of the file at path, None without a path
with_hash(fs, info) ==
    [info EXCEPT !.hash = IF IsNone(info.path) THEN None
                          ELSE get_file_hash(fs, Get(info.path))]

\* DataInformation.match_static
match_static(self, other, name_aliases) ==
    LET name_matches == other.name = self.name
                        \/ other.name \in Range(name_aliases)
        type_matches == other.type = self.type
    IN name_matches /\ type_matches

(***************************************************************************)
(* Serializers.                                                            *)
(***************************************************************************)
\* CexExecutor.default_serializers, in order
default_serializers == <<"json", "yaml", "csv", "pickle", "txt">>

get_file_extension(s) ==
    CASE s = "json" -> ".json"
      [] s = "yaml" -> ".yaml"
      [] s = "csv" -> ".csv"
      [] s = "pickle" -> ".pkl"
      [] s = "txt" -> ".txt"
      [] s = "custom" -> ".dat"

\* matches_file of each serializer of data.serializers; the argument is
\* Path.suffix, which carries the leading dot.  "custom" is a serializer
\* of the user for .dat files
matches_file(s, extension) ==
    CASE s = "json" -> extension = "json"
      [] s = "yaml" -> extension = "yml" \/ extension = "yaml"
      [] s = "csv" -> extension = ".csv"
      [] s = "pickle" -> extension = ".pkl" \/ extension = ".pickle"
      [] s = "txt" -> extension = "txt"
      [] s = "custom" -> extension = ".dat"

RECURSIVE FirstMatching(_, _)
FirstMatching(sers, extension) ==
    IF sers = <<>> THEN None
    ELSE IF matches_file(Head(sers), extension) THEN Some(Head(sers))
    ELSE FirstMatching(Tail(sers), extension)

\* the suffix of a path: input files carry the extension of their
\* declaration, a cached output the extension of its serializer
Suffix(path) ==
    IF path[1] = "in"
    THEN LET d == Get(g.nodes[path[2]].dir)
             i == CHOOSE k \in 1..Len(d) : d[k].stem = path[3]
         IN d[i].ext
    ELSE get_file_extension(g.nsTypes[g.nodes[path[2]].outType])

\* Cex.__init__: no serializer by type, the five default serializers
Cex ==
    [serilizers_by_type |-> <<>>, default_serializers |-> default_serializers]

\* CexExecutor.__init__, called by Namespace.run for every run: a type map
\* and a default list of its own, whatever pipeline.cex holds
CexExecutor(engine) ==
    [serilizers_by_type |-> <<>>, default_serializers |-> default_serializers]

\* CexExecutor.resolve_serializer: the executor's type map, then its
\* default serializers by suffix when the path is an existing file
cex_resolve_serializer(fs, data) ==
    LET self == CexExecutor(cex)
    IN IF data.type \in DOMAIN self.serilizers_by_type
       THEN Some(self.serilizers_by_type[data.type])
       ELSE IF ~IsNone(data.path) /\ ~IsNone(fs[Get(data.path)])
       THEN FirstMatching(self.default_serializers, Suffix(Get(data.path)))
       ELSE None

\* NamespaceExecutor.resolve_serializer
resolve_serializer(fs, data) ==
    IF data.type \in DOMAIN g.nsTypes THEN Some(g.nsTypes[data.type])
    ELSE cex_resolve_serializer(fs, data)

(***************************************************************************)
(* NodeExecutor: what a node requires, offers and produces.                *)
(***************************************************************************)
\* NodeExecutor.get_required_inputs
get_required_inputs(n) ==
    [i \in 1..Len(g.nodes[n].params) |->
        DataInformation(g.nodes[n].params[i].name,
                        g.nodes[n].params[i].type, None)]

\* NodeExecutor.get_input_aliases
get_input_aliases(n, input_name) ==
    IF input_name \notin DOMAIN g.nodes[n].aliases THEN <<input_name>>
    ELSE g.nodes[n].aliases[input_name]

\* NodeExecutor.get_available_file_inputs
get_available_file_inputs(fs, n) ==
    IF IsNone(g.nodes[n].dir) THEN <<>>
    ELSE LET d == Get(g.nodes[n].dir)
         IN [i \in 1..Len(d) |->
               with_hash(fs, DataInformation(d[i].stem, NoneT,
                                             Some(InPath(n, d[i].stem))))]

\* Node.input_serializers: None, one DataSerializer or a dict by input name
OneSerializer(s) == [single |-> TRUE, one |-> s, by_name |-> <<>>]
ByName(map) == [single |-> FALSE, one |-> "", by_name |-> map]
input_serializers(n) ==
    IF "input_serializers" \in DOMAIN g.nodes[n]
    THEN g.nodes[n].input_serializers ELSE None

\* NodeExecutor.resolve_input_serializer: None stands for the
\* RuntimeException it raises
resolve_input_serializer(fs, n, input) ==
    LET own == input_serializers(n)
    IN IF ~IsNone(own) /\ Get(own).single THEN Some(Get(own).one)
       ELSE IF IsNone(own) THEN resolve_serializer(fs, input)
       ELSE IF input.name \in DOMAIN Get(own).by_name
       THEN Some(Get(own).by_name[input.name])
       ELSE None

\* NodeExecutor.resolve_output_serializer, no node-local output_serializer:
\* None stands for the Exception it raises
resolve_output_serializer(fs, info) == resolve_serializer(fs, info)

\* NodeExecutor.get_output_information: [raises, info]; info is None for
\* a node without output_name or with return annotation None
get_output_information(fs, n) ==
    LET d == g.nodes[n]
    IN IF d.outType = NoneT \/ IsNone(d.outName)
       THEN [raises |-> FALSE, info |-> None]
       ELSE LET information == DataInformation(Get(d.outName), d.outType, None)
                serializer == resolve_output_serializer(fs, information)
            IN IF ~cached[n]
               THEN [raises |-> FALSE, info |-> Some(information)]
               ELSE IF IsNone(serializer)
               THEN [raises |-> TRUE, info |-> None]
               ELSE [raises |-> FALSE,
                     info |-> Some([information EXCEPT
                                      !.path = Some(OutPath(n)),
                                      !.serializer = serializer])]

\* NodeExecutor.subsequent_node_ids
subsequent_node_ids(n) == g.nodes[n].succ

RECURSIVE append_multiple(_, _, _)
\* execution.utils.append_multiple
append_multiple(dict, keys, value) ==
    IF keys = <<>> THEN dict
    ELSE append_multiple([dict EXCEPT ![Head(keys)] = Append(@, value)],
                         Tail(keys), value)

(***************************************************************************)
(* Metadata.                                                               *)
(***************************************************************************)
\* the parameter names of the node's function
ParamNames(n) == {g.nodes[n].params[i].name : i \in 1..Len(g.nodes[n].params)}

\* NodeMeta.get_input_keys: the keys of function.__annotations__, the
\* annotated parameters and "return" for an annotated return
get_input_keys(n) ==
    {g.nodes[n].params[i].name :
        i \in {j \in 1..Len(g.nodes[n].params) :
                  g.nodes[n].params[j].type # EmptyT}}
    \cup (IF g.nodes[n].outType # EmptyT THEN {"return"} ELSE {})

\* NodeMeta.init_from: no hash stored for any key, none for the output
NodeMeta_init_from(n) ==
    [input_hashes |-> [k \in get_input_keys(n) |-> None], output_hash |-> None]

\* variant of is_current: a missing hash counts as equal to a missing one
is_current_input_comparing_only(m, name, hash) ==
    /\ name \in DOMAIN m.input_hashes
    /\ m.input_hashes[name] = hash

\* NodeMeta.is_current for one parameter (is_current_input of the
\* executors): the given hash is present, one is stored, they are equal
is_current_input(m, name, hash) ==
    /\ ~IsNone(hash)
    /\ name \in DOMAIN m.input_hashes
    /\ ~IsNone(m.input_hashes[name])
    /\ m.input_hashes[name] = hash

\* variant of update_hash: the stored hash is kept
keep_input_hash(m, name, value) == m

\* NodeMeta.update_hash (update_input_hash of the executors)
update_input_hash(m, name, value) ==
    [m EXCEPT !.input_hashes =
        [k \in DOMAIN @ \cup {name} |-> IF k = name THEN value ELSE @[k]]]

\* update_output_hash of the executors
update_output_hash(m, value) == [m EXCEPT !.output_hash = value]

\* variant of sync: the file is written from the metadata as it was before
\* the executing node stored its hashes
sync_before_update(mem) == meta

\* ExecutionMetadataHandler.sync: rewrites the metadata file from memory
sync(mem) == mem

(***************************************************************************)
(* Input resolution.                                                       *)
(***************************************************************************)
Matching(n, required, node_inputs) ==
    {i \in 1..Len(node_inputs) :
        match_static(required, node_inputs[i],
                     get_input_aliases(n, required.name))}

\* NamespaceExecutor.resolve_node_inputs: ok is FALSE when it sets the
\* node to ERROR and raises RuntimeException
resolve_node_inputs(fs, n, available) ==
    LET node_inputs == available \o get_available_file_inputs(fs, n)
        required_inputs == get_required_inputs(n)
        bad == {i \in 1..Len(required_inputs) :
                  Cardinality(Matching(n, required_inputs[i], node_inputs)) # 1}
    IN [ok |-> bad = {},
        inputs |-> [k \in ParamNames(n) |->
            LET i == CHOOSE j \in 1..Len(required_inputs) :
                        required_inputs[j].name = k
                m == Matching(n, required_inputs[i], node_inputs)
            IN IF Cardinality(m) = 1
               THEN node_inputs[CHOOSE j \in m : TRUE]
               ELSE DataInformation(k, NoneT, None)]]

\* NamespaceExecutor.validate_input_dependencies: the messages it collects,
\* <<kind, node, parameter>> for an unsatisfied or an ambiguous input
RECURSIVE validate_input_dependencies(_, _, _)
validate_input_dependencies(order, available_inputs, messages) ==
    IF order = <<>> THEN messages
    ELSE LET node == Head(order)
             node_inputs == available_inputs[node]
                            \o get_available_file_inputs(files, node)
             req == get_required_inputs(node)
             found == {<<IF Matching(node, req[i], node_inputs) = {}
                         THEN "CannotSatisfyInput" ELSE "AmbiguosInputs",
                         node, req[i].name>> : i \in
                         {j \in 1..Len(req) :
                            Cardinality(Matching(node, req[j], node_inputs)) # 1}}
             output == get_output_information(files, node)
         IN validate_input_dependencies(
                Tail(order),
                IF IsNone(output.info) THEN available_inputs
                ELSE append_multiple(available_inputs,
                                     subsequent_node_ids(node),
                                     Get(output.info)),
                messages \cup found)

(***************************************************************************)
(* The user functions: deterministic in their arguments.                   *)
(***************************************************************************)
RECURSIVE SumOf(_, _)
SumOf(f, keys) ==
    IF keys = {} THEN 0
    ELSE LET k == CHOOSE k \in keys : TRUE
         IN f[k] + SumOf(f, keys \ {k})

function(n, input_values) ==
    (1 + SumOf(input_values, DOMAIN input_values)) % (MaxVal + 1)

(***************************************************************************)
(* Initial state: a process that has called run() on nothing yet.  The     *)
(* metadata store holds one empty NodeMeta per node of the namespace, the  *)
(* input files exist and no output was ever written.                       *)
(***************************************************************************)
InputPaths(G) ==
    UNION {{InPath(n, Get(G.nodes[n].dir)[i].stem) :
               i \in 1..Len(Get(G.nodes[n].dir))} :
           n \in {m \in NodesOf(G) : ~IsNone(G.nodes[m].dir)}}

Paths(G) == {OutPath(n) : n \in NodesOf(G)} \cup InputPaths(G)

\* the engine before the first run of the namespace g
InitNamespace ==
    /\ graph = [order |-> <<>>, cyclic |-> FALSE]
    /\ cached \in [NodesOf(g) -> BOOLEAN]
    /\ run = 0
    /\ phase = "idle"
    /\ pos = 1
    /\ state = [n \in NodesOf(g) |-> UNINITIALIZED]
    /\ inbox = [n \in NodesOf(g) |-> <<>>]
    /\ args = <<>>
    /\ meta = [n \in NodesOf(g) |-> NodeMeta_init_from(n)]
    /\ disk = [n \in NodesOf(g) |-> NodeMeta_init_from(n)]
    /\ files = [p \in Paths(g) |-> IF p[1] = "in" THEN Some(0) ELSE None]
    /\ invoked = {}
    /\ wrote = {}
    /\ failure = "none"
    /\ logged = "none"
    /\ raised = "none"
    /\ faults = 0
    /\ changed = {}
    /\ prevOk = FALSE
    /\ atExec = [n \in NodesOf(g) |-> None]
    /\ ns = [name |-> "ns1", path |-> "ns1"]
    /\ rec = 1
    /\ namespaces =
          [i \in 1..2 |->
             [name |-> <<"ns1", "ns2">>[i],
              nodes |-> [n \in NodesOf(g) |-> NodeMeta_init_from(n)],
              disk |-> [n \in NodesOf(g) |-> NodeMeta_init_from(n)]]]
    /\ trees = [p \in {"ns1", "other"} |->
                  [q \in Paths(g) |-> IF q[1] = "in" THEN Some(0) ELSE None]]
    /\ ran = {}
    /\ cex = Cex
    /\ atStart = [n \in NodesOf(g) |-> NodeMeta_init_from(n)]

InitEngine == g \in Graphs /\ InitNamespace

Init == InitEngine /\ call = <<>> /\ ret = <<>>

(***************************************************************************)
(* CexExecutor.execute_pipeline: the run boundary.                         *)
(***************************************************************************)
\* variant of the except clauses: the exception is logged and raised again
execute_pipeline_reraise(exc) ==
    [logged |-> IF exc = "ValidationException" THEN "validation"
                ELSE "runtime",
     raised |-> exc]

\* the except clauses of execute_pipeline: a ValidationException has its
\* messages logged, any other exception is logged as unexpected; neither
\* is raised again
execute_pipeline_except(exc) ==
    [logged |-> IF exc = "ValidationException" THEN "validation"
                ELSE "runtime",
     raised |-> "none"]

\* run() returns after exception exc was raised inside the try block
Fails(exc) ==
    /\ phase' = "done"
    /\ failure' = exc
    /\ logged' = execute_pipeline_except(exc).logged
    /\ raised' = execute_pipeline_except(exc).raised

\* NodeValidator.validate: the messages about annotations
NodeValidator_validate(n) ==
    (IF \E i \in 1..Len(g.nodes[n].params) :
           g.nodes[n].params[i].type = EmptyT
     THEN {<<"Function parameters must be type hinted in", n>>} ELSE {})
    \cup
    (IF ~IsNone(g.nodes[n].outName) /\ g.nodes[n].outType = EmptyT
     THEN {<<"Function output must be annotated">>} ELSE {})

\* NamespaceValidator.validate: the messages of every node dfs visits
NamespaceValidator_validate ==
    UNION {NodeValidator_validate(n) : n \in Range(build_graph(g).order)}

\* execute_pipeline up to the end of NamespaceExecutor.__init__: validation
\* and build_graph, on fresh NodeExecutors
enter_pipeline ==
    /\ phase \in {"idle", "done"}
    /\ run < MaxRuns
    /\ run' = run + 1
    /\ prevOk' = (phase = "done" /\ failure = "none")
    /\ state' = [n \in NodesOf(g) |-> UNINITIALIZED]
    /\ inbox' = [n \in NodesOf(g) |-> <<>>]
    /\ args' = <<>>
    /\ invoked' = {}
    /\ wrote' = {}
    /\ atExec' = [n \in NodesOf(g) |-> None]
    /\ pos' = 1
    /\ IF NamespaceValidator_validate # {}
       THEN /\ Fails("ValidationException")
            /\ graph' = [order |-> <<>>, cyclic |-> FALSE]
       ELSE /\ phase' = "prepare"
            /\ graph' = topological_sort(g)
            /\ failure' = "none"
            /\ logged' = "none"
            /\ raised' = "none"
    /\ UNCHANGED <<g, cached, faults, changed>>

\* the namespace's record of the metadata store and its files
Namespace(name, path) == [name |-> name, path |-> path]
Namespace1 == Namespace("ns1", "ns1")

\* Namespace.init_from: a copy with its own name and path that shares
\* root_nodes and serializers_by_type (the graph g)
Namespace_init_from(namespace, name, path) == Namespace(name, path)
Namespace2 == Namespace_init_from(Namespace1, "ns2", "other")

\* variant of get_namespace: the first record of the store, whatever its name
get_first_namespace(list, name) == 1

\* CexMeta.get_namespace: the first record carrying the name (its index)
get_namespace(list, name) ==
    CHOOSE i \in 1..Len(list) :
        /\ list[i].name = name
        /\ \A j \in 1..(i - 1) : list[j].name # name

\* Namespace.run of the namespace ns, the one every run of Spec calls
StartRun ==
    /\ enter_pipeline
    /\ ran' = ran \cup {ns.name}
    /\ atStart' = meta
    /\ UNCHANGED <<meta, disk, files, ns, rec, namespaces, trees, call, ret, cex>>

\* Namespace.run of either namespace: NodeExecutor.meta resolves the record
\* get_namespace returns for the namespace's name, and paths resolve under
\* the namespace's path
StartRunOf ==
    \E nm \in {Namespace1, Namespace2} :
        LET stored == [namespaces EXCEPT
                         ![rec] = [@ EXCEPT !.nodes = meta, !.disk = disk]]
            kept == [trees EXCEPT ![ns.path] = files]
            i == get_namespace(stored, nm.name)
        IN /\ enter_pipeline
           /\ ns' = nm
           /\ rec' = i
           /\ namespaces' = stored
           /\ meta' = stored[i].nodes
           /\ disk' = stored[i].disk
           /\ trees' = kept
           /\ files' = kept[nm.path]
           /\ ran' = ran \cup {nm.name}
           /\ atStart' = stored[i].nodes
           /\ UNCHANGED <<call, ret, cex>>

(***************************************************************************)
(* NamespaceExecutor.prepare_node_states, one node per step.               *)
(***************************************************************************)
Order == graph.order

\* variant of the skip decision: an input without a hash counts as current
prepared_state_ignoring_absent(n, resolved_inputs) ==
    IF \E name \in DOMAIN resolved_inputs :
          /\ ~IsNone(resolved_inputs[name].hash)
          /\ ~is_current_input(meta[n], name, resolved_inputs[name].hash)
    THEN READY
    ELSE SKIPPED

\* the skip decision of prepare_node_states for resolved inputs
prepared_state(n, resolved_inputs) ==
    IF \E name \in DOMAIN resolved_inputs :
          \/ IsNone(resolved_inputs[name].hash)
          \/ ~is_current_input(meta[n], name, resolved_inputs[name].hash)
    THEN READY
    ELSE SKIPPED

PrepareNode ==
    /\ phase = "prepare"
    /\ pos <= Len(Order)
    /\ LET node == Order[pos]
           output == get_output_information(files, node)
           offered ==
               IF ~IsNone(output.info) /\ Len(g.nodes[node].succ) > 0
               THEN append_multiple(inbox, subsequent_node_ids(node),
                        IF cached[node] THEN with_hash(files, Get(output.info))
                        ELSE Get(output.info))
               ELSE inbox
           resolved == resolve_node_inputs(files, node, offered[node])
       IN IF output.raises
          THEN /\ Fails("Exception")
               /\ UNCHANGED <<state, inbox, pos>>
          ELSE IF ~cached[node]
          THEN /\ state' = [state EXCEPT ![node] = READY]
               /\ inbox' = offered
               /\ pos' = pos + 1
               /\ UNCHANGED <<phase, failure, logged, raised>>
          ELSE IF ~resolved.ok
          THEN /\ state' = [state EXCEPT ![node] = ERROR]
               /\ inbox' = [offered EXCEPT ![node] = <<>>]
               /\ Fails("RuntimeException")
               /\ UNCHANGED pos
          ELSE /\ state' = [state EXCEPT
                              ![node] = prepared_state(node, resolved.inputs)]
               /\ inbox' = [offered EXCEPT ![node] = <<>>]
               /\ pos' = pos + 1
               /\ UNCHANGED <<phase, failure, logged, raised>>
    /\ UNCHANGED <<ns, rec, namespaces, trees, ran, call, ret, cex, atStart>>
    /\ UNCHANGED <<g, graph, cached, run, args, meta, disk, files, invoked, wrote,
                   faults, changed, prevOk, atExec>>

\* the iteration of prepare_node_states ends: topological_sort raises
\* NetworkXUnfeasible on a cycle; else execute_pipeline calls execute()
PrepareEnd ==
    /\ phase = "prepare"
    /\ pos > Len(Order)
    /\ IF graph.cyclic
       THEN /\ Fails("NetworkXUnfeasible")
            /\ UNCHANGED <<pos, inbox>>
       ELSE /\ phase' = "execute"
            /\ pos' = 1
            /\ inbox' = [n \in NodesOf(g) |-> <<>>]
            /\ UNCHANGED <<failure, logged, raised>>
    /\ UNCHANGED <<ns, rec, namespaces, trees, ran, call, ret, cex, atStart>>
    /\ UNCHANGED <<g, graph, cached, run, state, args, meta, disk, files, invoked,
                   wrote, faults, changed, prevOk, atExec>>

(***************************************************************************)
(* NamespaceExecutor.execute, one node per step; NodeExecutor.execute.     *)
(***************************************************************************)
\* the node is SKIPPED: execute() moves on to the next node
ExecuteSkip ==
    /\ phase = "execute"
    /\ pos <= Len(Order)
    /\ state[Order[pos]] = SKIPPED
    /\ pos' = pos + 1
    /\ UNCHANGED <<ns, rec, namespaces, trees, ran, call, ret, cex, atStart>>
    /\ UNCHANGED <<g, graph, cached, run, phase, state, inbox, args, meta, disk,
                   files, invoked, wrote, failure, logged, raised, faults,
                   changed, prevOk, atExec>>

\* resolve_node_inputs of execute(), then NodeExecutor.execute sets RUNNING
ExecuteBegin ==
    /\ phase = "execute"
    /\ pos <= Len(Order)
    /\ state[Order[pos]] \notin {SKIPPED, RUNNING}
    /\ LET node == Order[pos]
           resolved == resolve_node_inputs(files, node, inbox[node])
       IN /\ inbox' = [inbox EXCEPT ![node] = <<>>]
          /\ IF resolved.ok
             THEN /\ state' = [state EXCEPT ![node] = RUNNING]
                  /\ args' = resolved.inputs
                  /\ UNCHANGED <<phase, failure, logged, raised>>
             ELSE /\ state' = [state EXCEPT ![node] = ERROR]
                  /\ args' = <<>>
                  /\ Fails("RuntimeException")
    /\ UNCHANGED <<ns, rec, namespaces, trees, ran, call, ret, cex, atStart>>
    /\ UNCHANGED <<g, graph, cached, run, pos, meta, disk, files, invoked, wrote,
                   faults, changed, prevOk, atExec>>

\* NodeExecutor.resolve_value raises: neither value nor path, no
\* serializer for the path, or the serializer finds no file to load
resolve_value_raises(fs, n, info) ==
    /\ IsNone(info.value)
    /\ \/ IsNone(info.path)
       \/ /\ IsNone(info.serializer)
          /\ IsNone(resolve_input_serializer(fs, n, info))
       \/ IsNone(fs[Get(info.path)])

\* NodeExecutor.resolve_value: the value carried, else the file loaded
resolve_value(fs, info) ==
    IF ~IsNone(info.value) THEN Get(info.value) ELSE Get(fs[Get(info.path)])

\* variant of the except clause: the node is set to ERROR and the loop
\* continues with the next node
execute_except_continue == [state |-> ERROR, reraise |-> FALSE]

\* the except clause around node.execute in NamespaceExecutor.execute:
\* the node is set to ERROR and the exception is raised again
execute_except == [state |-> ERROR, reraise |-> TRUE]

\* the failures that can be injected into the execution of node n
FaultsOf(n) ==
    {"none"} \cup
    (IF faults < MaxFaults
     THEN {"raise"}
          \cup (IF ~IsNone(get_output_information(files, n).info)
                THEN {"badtype"} ELSE {})
          \cup (IF ~IsNone(get_output_information(files, n).info) /\ cached[n]
                THEN {"save"} ELSE {})
     ELSE {})

\* the input hashes NodeExecutor.execute stores: every argument with a hash
RECURSIVE update_input_hashes(_, _, _)
update_input_hashes(m, a, keys) ==
    IF keys = {} THEN m
    ELSE LET k == CHOOSE k \in keys : TRUE
         IN update_input_hashes(
                IF IsNone(a[k].hash) THEN m
                ELSE update_input_hash(m, k, a[k].hash),
                a, keys \ {k})

\* an exception leaves node.execute: the except clause of execute()
NodeFails(node, exc) ==
    /\ state' = [state EXCEPT ![node] = execute_except.state]
    /\ IF execute_except.reraise
       THEN Fails(exc) /\ UNCHANGED pos
       ELSE pos' = pos + 1 /\ UNCHANGED <<phase, failure, logged, raised>>

ExecuteNode ==
    /\ phase = "execute"
    /\ pos <= Len(Order)
    /\ state[Order[pos]] = RUNNING
    /\ \E fault \in FaultsOf(Order[pos]) :
        LET node == Order[pos]
            loadFails == \E k \in DOMAIN args : resolve_value_raises(files, node, args[k])
            input_values == [k \in DOMAIN args |-> resolve_value(files, args[k])]
            value == function(node, input_values)
            output == get_output_information(files, node)
            saves == cached[node] /\ ~IsNone(output.info)
            stores == saves \/ \E k \in DOMAIN args : ~IsNone(args[k].hash)
            hash == Some(<<"sha256", value>>)
            files1 == IF saves THEN [files EXCEPT ![OutPath(node)] = Some(value)]
                      ELSE files
            m1 == IF saves THEN update_output_hash(meta[node], hash)
                  ELSE meta[node]
            m2 == update_input_hashes(m1, args, DOMAIN args)
            meta1 == [meta EXCEPT ![node] = m2]
            result == IF IsNone(output.info) THEN None
                      ELSE Some([Get(output.info) EXCEPT
                                   !.value = Some(value),
                                   !.hash = IF saves THEN hash ELSE None])
        IN /\ faults' = IF fault = "none" THEN faults ELSE faults + 1
           /\ args' = <<>>
           /\ IF loadFails
              THEN \* resolve_value raises before the function is called
                   /\ fault = "none"
                   /\ NodeFails(node, "RuntimeException")
                   /\ UNCHANGED <<inbox, meta, disk, files, invoked, wrote,
                                  atExec>>
              ELSE IF fault = "raise" \/ fault = "badtype" \/ fault = "save"
                      \/ output.raises
              THEN \* the function raises, with_value rejects the value's
                   \* type, or serializer.save raises
                   /\ invoked' = invoked \cup {node}
                   /\ NodeFails(node, IF fault = "badtype"
                                      THEN "RuntimeException" ELSE "Exception")
                   /\ UNCHANGED <<inbox, meta, disk, files, wrote, atExec>>
              ELSE /\ invoked' = invoked \cup {node}
                   /\ files' = files1
                   /\ meta' = meta1
                   /\ disk' = sync(meta1)
                   /\ wrote' = IF stores THEN wrote \cup {node} ELSE wrote
                   /\ state' = [state EXCEPT ![node] = EXECUTED]
                   /\ atExec' = [atExec EXCEPT ![node] =
                          Some([meta |-> m2, file |-> files1[OutPath(node)]])]
                   /\ IF cached[node] /\ IsNone(result)
                      THEN \* "Expected ouput from node ... is missing"
                           /\ Fails("RuntimeException")
                           /\ UNCHANGED <<pos, inbox>>
                      ELSE /\ inbox' = IF cached[node]
                                       THEN append_multiple(inbox,
                                              subsequent_node_ids(node),
                                              Get(result))
                                       ELSE inbox
                           /\ pos' = pos + 1
                           /\ UNCHANGED <<phase, failure, logged, raised>>
    /\ UNCHANGED <<ns, rec, namespaces, trees, ran, call, ret, cex, atStart>>
    /\ UNCHANGED <<g, graph, cached, run, changed, prevOk>>

\* the iteration of execute() ends and run() returns
ExecuteEnd ==
    /\ phase = "execute"
    /\ pos > Len(Order)
    /\ phase' = "done"
    /\ UNCHANGED <<ns, rec, namespaces, trees, ran, call, ret, cex, atStart>>
    /\ UNCHANGED <<g, graph, cached, run, pos, state, inbox, args, meta, disk,
                   files, invoked, wrote, failure, logged, raised, faults,
                   changed, prevOk, atExec>>

(***************************************************************************)
(* The user, between two runs.                                             *)
(***************************************************************************)
ChangesAfter(r) == {c[2] : c \in {d \in changed : d[1] = r}}

\* overwrite one existing input or output file with other content
ChangeFile ==
    /\ phase = "done"
    /\ run < MaxRuns
    /\ ChangesAfter(run) = {}
    /\ \E p \in Paths(g) : \E v \in Values :
         /\ ~IsNone(files[p])
         /\ v # Get(files[p])
         /\ files' = [files EXCEPT ![p] = Some(v)]
         /\ changed' = changed \cup {<<run, p>>}
    /\ UNCHANGED <<ns, rec, namespaces, trees, ran, call, ret, cex, atStart>>
    /\ UNCHANGED <<g, graph, cached, run, phase, pos, state, inbox, args, meta,
                   disk, invoked, wrote, failure, logged, raised, faults,
                   prevOk, atExec>>

Next ==
    \/ StartRun
    \/ PrepareNode
    \/ PrepareEnd
    \/ ExecuteSkip
    \/ ExecuteBegin
    \/ ExecuteNode
    \/ ExecuteEnd
    \/ ChangeFile

Spec == Init /\ [][Next]_vars

(***************************************************************************)
(* The same engine when the metadata file cannot be written: open() or     *)
(* json.dump raises inside MetadataProvider.sync.                          *)
(***************************************************************************)
\* what the metadata file holds after a failed sync: open(path, 'w') may
\* have failed (the file is as before) or json.dump after truncation (no
\* record is readable)
failed_sync(before) == {before, [n \in NodesOf(g) |-> None]}

\* NodeExecutor.execute up to set_state(EXECUTED), before a sync that is
\* going to raise: the function ran, the output is saved and the hashes
\* are updated in memory
ExecuteNodeUnflushed ==
    /\ phase = "execute"
    /\ pos <= Len(Order)
    /\ state[Order[pos]] = RUNNING
    /\ faults < MaxFaults
    /\ LET node == Order[pos]
           input_values == [k \in DOMAIN args |-> resolve_value(files, args[k])]
           value == function(node, input_values)
           output == get_output_information(files, node)
           saves == cached[node] /\ ~IsNone(output.info)
           files1 == IF saves THEN [files EXCEPT ![OutPath(node)] = Some(value)]
                     ELSE files
           m1 == IF saves
                 THEN update_output_hash(meta[node], Some(<<"sha256", value>>))
                 ELSE meta[node]
           m2 == update_input_hashes(m1, args, DOMAIN args)
       IN /\ ~\E k \in DOMAIN args : resolve_value_raises(files, node, args[k])
          /\ ~output.raises
          /\ invoked' = invoked \cup {node}
          /\ files' = files1
          /\ meta' = [meta EXCEPT ![node] = m2]
          /\ wrote' = IF saves THEN wrote \cup {node} ELSE wrote
          /\ state' = [state EXCEPT ![node] = EXECUTED]
          /\ atExec' = [atExec EXCEPT ![node] =
                 Some([meta |-> m2, file |-> files1[OutPath(node)]])]
    /\ faults' = faults + 1
    /\ phase' = "sync"
    /\ UNCHANGED <<ns, rec, namespaces, trees, ran, call, ret, cex, atStart>>
    /\ UNCHANGED <<g, graph, cached, run, pos, inbox, args, disk, failure,
                   logged, raised, changed, prevOk>>

\* self.meta_metaprovider.sync() raises: the exception leaves node.execute
\* and reaches the except clause of NamespaceExecutor.execute
SyncFails ==
    /\ phase = "sync"
    /\ disk' \in failed_sync(disk)
    /\ args' = <<>>
    /\ NodeFails(Order[pos], "OSError")
    /\ UNCHANGED <<ns, rec, namespaces, trees, ran, call, ret, cex, atStart>>
    /\ UNCHANGED <<g, graph, cached, run, inbox, meta, files, invoked, wrote,
                   faults, changed, prevOk, atExec>>

NextFlush ==
    \/ StartRun
    \/ PrepareNode
    \/ PrepareEnd
    \/ ExecuteSkip
    \/ ExecuteBegin
    \/ ExecuteNode
    \/ ExecuteEnd
    \/ ChangeFile
    \/ ExecuteNodeUnflushed
    \/ SyncFails

SpecFlush == Init /\ [][NextFlush]_vars

(***************************************************************************)
(* The same engine when a function returns a value that does not conform   *)
(* to its return annotation.                                               *)
(***************************************************************************)
\* variant of with_value: the value is taken whatever its type
with_value_unchecked(info, conforms) == [raises |-> FALSE]

\* DataInformation.with_value: raises RuntimeException when the type is
\* not None and is_valid(value, type) is false
with_value(info, conforms) == [raises |-> info.type # NoneT /\ ~conforms]

\* NodeExecutor.execute up to the return of the function, which returns a
\* value that is_valid rejects for the declared type
FunctionReturnsInvalid ==
    /\ phase = "execute"
    /\ pos <= Len(Order)
    /\ state[Order[pos]] = RUNNING
    /\ faults < MaxFaults
    /\ LET node == Order[pos]
           output == get_output_information(files, node)
       IN /\ ~\E k \in DOMAIN args : resolve_value_raises(files, node, args[k])
          /\ ~output.raises
          /\ ~IsNone(output.info)
          /\ invoked' = invoked \cup {node}
    /\ faults' = faults + 1
    /\ phase' = "with_value"
    /\ UNCHANGED <<ns, rec, namespaces, trees, ran, call, ret, cex, atStart>>
    /\ UNCHANGED <<g, graph, cached, run, pos, state, inbox, args, meta, disk,
                   files, wrote, failure, logged, raised, changed, prevOk,
                   atExec>>

\* output.with_value(value, ...) on that value: the RuntimeException leaves
\* node.execute and reaches the except clause of NamespaceExecutor.execute
WithValue ==
    /\ phase = "with_value"
    /\ LET node == Order[pos]
           output == get_output_information(files, node)
       IN IF with_value(Get(output.info), FALSE).raises
          THEN /\ args' = <<>>
               /\ NodeFails(node, "RuntimeException")
          ELSE /\ phase' = "execute"
               /\ UNCHANGED <<state, args, pos, failure, logged, raised>>
    /\ UNCHANGED <<ns, rec, namespaces, trees, ran, call, ret, cex, atStart>>
    /\ UNCHANGED <<g, graph, cached, run, inbox, meta, disk, files, invoked,
                   wrote, faults, changed, prevOk, atExec>>

NextType ==
    \/ StartRun
    \/ PrepareNode
    \/ PrepareEnd
    \/ ExecuteSkip
    \/ ExecuteBegin
    \/ ExecuteNode
    \/ ExecuteEnd
    \/ ChangeFile
    \/ FunctionReturnsInvalid
    \/ WithValue

SpecType == Init /\ [][NextType]_vars

\* The same engine when a namespace and its clone are run in any order, on
\* the pipelines that read an input file.
InitClone == Init /\ g \in {GraphDiamond, GraphFileInput}

NextClone ==
    \/ StartRunOf
    \/ PrepareNode
    \/ PrepareEnd
    \/ ExecuteSkip
    \/ ExecuteBegin
    \/ ExecuteNode
    \/ ExecuteEnd

SpecClone == InitClone /\ [][NextClone]_vars

(***************************************************************************)
(* pipeline.node.Node and its persistent hash.  A string is a sequence of  *)
(* tokens, so that a name may hold the separator "|".                      *)
(***************************************************************************)
engine_vars ==
    <<g, graph, cached, run, phase, pos, state, inbox, args, meta, disk, files,
      invoked, wrote, failure, logged, raised, faults, changed, prevOk,
      atExec, ns, rec, namespaces, trees, ran, cex, atStart>>

\* Node.__init__: output_directory defaults to the node's name
Node(name, is_cached, func, outputs, input_directory_name, output_directory_name, input_aliases) ==
    [name |-> name, is_cached |-> is_cached, function |-> func,
     outputs |-> outputs, input_directory_name |-> input_directory_name,
     output_directory |-> IF IsNone(output_directory_name) THEN name
                          ELSE Get(output_directory_name),
     input_aliases |-> input_aliases, input_serializers |-> None,
     output_serializers |-> None, runtime_id |-> 1, subsequent_nodes |-> <<>>]

\* the order of str on the alias keys in use
KeyOrder == <<"p", "q">>

RECURSIVE sorted(_, _)
\* sorted(items) of (key, value) pairs with distinct keys: by key
sorted(items, keys) ==
    IF keys = <<>> THEN <<>>
    ELSE SelectSeq(items, LAMBDA it : it[1] = Head(keys))
         \o sorted(items, Tail(keys))

RECURSIVE str_items(_)
\* str of a list of (key, value) pairs
str_items(items) ==
    IF items = <<>> THEN <<>>
    ELSE <<"(", Head(items)[1], ",">> \o Head(items)[2] \o <<")">>
         \o str_items(Tail(items))

\* variant of get_stable_input_aliases: the items in insertion order
get_unsorted_input_aliases(node) ==
    IF IsNone(node.input_aliases) THEN None
    ELSE Some(<<"[">> \o str_items(Get(node.input_aliases)) \o <<"]">>)

\* get_stable_input_aliases of Node.get_persistent_hash
get_stable_input_aliases(node) ==
    IF IsNone(node.input_aliases) THEN None
    ELSE Some(<<"[">> \o str_items(sorted(Get(node.input_aliases), KeyOrder))
              \o <<"]">>)

\* stable_attrs of Node.get_persistent_hash, each None or its str
stable_attrs(node) ==
    << Some(node.name),
       Some(IF node.is_cached THEN <<"True">> ELSE <<"False">>),
       Some(node.function),
       node.outputs,
       IF IsNone(node.input_directory_name)
          \/ node.input_directory_name = Some(<<>>)
       THEN None ELSE node.input_directory_name,
       Some(node.output_directory),
       get_stable_input_aliases(node) >>

RECURSIVE join(_)
\* "|".join of a list of strings
join(strs) ==
    IF strs = <<>> THEN <<>>
    ELSE IF Len(strs) = 1 THEN Head(strs)
    ELSE Head(strs) \o <<"|">> \o join(Tail(strs))

\* stable_representation: the attributes that are not None, joined
stable_representation(node) ==
    LET attrs == stable_attrs(node)
        kept == SelectSeq(attrs, LAMBDA o : ~IsNone(o))
    IN join([i \in 1..Len(kept) |-> Get(kept[i])])

\* Node.get_persistent_hash: the SHA-256 digest of the representation
get_persistent_hash(node) == <<"sha256", stable_representation(node)>>

\* node declarations the hash is applied to
Names == {<<"a">>, <<"b">>, <<"a", "|", "b">>}
AliasItems == {<<"p", <<"x">>>>, <<"q", <<"y">>>>}
AliasMappings ==
    {None, Some(<<>>)}
    \cup {Some(<<i>>) : i \in AliasItems}
    \cup {Some(<<i, j>>) : <<i, j>> \in
              {pr \in AliasItems \X AliasItems : pr[1] # pr[2]}}

\* the mappings with the same items as m, inserted in any order
Reinsertions(m) ==
    IF IsNone(m) THEN {None}
    ELSE {Some(t) : t \in {u \in [1..Len(Get(m)) -> Range(Get(m))] :
                              Range(u) = Range(Get(m))}}

NodeOf(c) ==
    Node(c.name, c.is_cached, c.function, c.outputs, c.input_directory_name,
         c.output_directory_name, c.input_aliases)

InitHash ==
    /\ InitEngine
    /\ g = GraphUnannotated
    /\ cached = [n \in NodesOf(g) |-> FALSE]
    /\ ret = <<>>
    /\ \E name \in Names, is_cached \in BOOLEAN,
          outputs \in {None, Some(<<"x">>)},
          input_directory_name \in {None, Some(<<"in">>)},
          output_directory_name \in {None, Some(<<"b">>)},
          input_aliases \in AliasMappings :
          call = [op |-> "get_persistent_hash", name |-> name,
                  is_cached |-> is_cached, function |-> <<"m", ".", "f">>,
                  outputs |-> outputs,
                  input_directory_name |-> input_directory_name,
                  output_directory_name |-> output_directory_name,
                  input_aliases |-> input_aliases]

\* the hash of the node and of a node with the same stable attributes but
\* another runtime_id, other subsequent nodes, other serializers and the
\* aliases inserted in another order
HashOfTwin ==
    /\ call # <<>> /\ call.op = "get_persistent_hash" /\ ret = <<>>
    /\ \E rid \in {1, 2}, next \in {<<>>, <<1>>}, ser \in {None, Some("json")},
          al \in Reinsertions(call.input_aliases) :
          LET node == NodeOf(call)
              other == [node EXCEPT !.runtime_id = rid,
                                    !.subsequent_nodes = next,
                                    !.input_serializers = ser,
                                    !.output_serializers = ser,
                                    !.input_aliases = al]
          IN ret' = [of |-> "twin", node |-> node, other |-> other,
                     hash |-> get_persistent_hash(node),
                     other_hash |-> get_persistent_hash(other),
                     string |-> stable_representation(node),
                     other_string |-> stable_representation(other)]
    /\ UNCHANGED <<engine_vars, call>>

\* the hash of the node and of the node declared with another name
HashOfRenamed ==
    /\ call # <<>> /\ call.op = "get_persistent_hash" /\ ret = <<>>
    /\ \E name \in Names \ {call.name} :
          LET node == NodeOf(call)
              other == NodeOf([call EXCEPT !.name = name])
          IN ret' = [of |-> "renamed", node |-> node, other |-> other,
                     hash |-> get_persistent_hash(node),
                     other_hash |-> get_persistent_hash(other),
                     string |-> stable_representation(node),
                     other_string |-> stable_representation(other)]
    /\ UNCHANGED <<engine_vars, call>>

\* the canonical string of the node and of a node declared with other
\* stable attributes: name, is_cached, output name, input directory, output
\* directory or input aliases (a dict: equal when its items are)
HashOfDifferent ==
    /\ call # <<>> /\ call.op = "get_persistent_hash" /\ ret = <<>>
    /\ \E name \in Names, is_cached \in BOOLEAN,
          outputs \in {None, Some(<<"x">>)},
          input_directory_name \in {None, Some(<<"in">>), Some(<<"x">>)},
          output_directory_name \in {None, Some(<<"b">>)},
          input_aliases \in {None, call.input_aliases} :
          LET node == NodeOf(call)
              other == Node(name, is_cached, call.function, outputs,
                            input_directory_name, output_directory_name,
                            input_aliases)
              attributes(nd) ==
                  <<nd.name, nd.is_cached, nd.function, nd.outputs,
                    nd.input_directory_name, nd.output_directory,
                    IF IsNone(nd.input_aliases) THEN None
                    ELSE Some(Range(Get(nd.input_aliases)))>>
          IN /\ attributes(node) # attributes(other)
             /\ ret' = [of |-> "different", node |-> node, other |-> other,
                        hash |-> get_persistent_hash(node),
                        other_hash |-> get_persistent_hash(other),
                        string |-> stable_representation(node),
                        other_string |-> stable_representation(other)]
    /\ UNCHANGED <<engine_vars, call>>

NextHash ==
    \/ HashOfTwin
    \/ HashOfRenamed
    \/ HashOfDifferent

SpecHash == InitHash /\ [][NextHash]_vars

(***************************************************************************)
(* Validation of one namespace under every declaration order.  The user    *)
(* may list root_nodes and each node's subsequent_nodes in any order; the  *)
(* validators are applied to the graph as declared, then to it again or to *)
(* a redeclaration of it.                                                  *)
(***************************************************************************)
MaxValidations == 2

\* RuntimeException.to_validaton_exception: a ValidationException whose
\* message list is empty (the text goes to the exception's args)
to_validaton_exception(ex) == [raises |-> TRUE, messages |-> {}]

\* fail-fast variant: the messages of the first node in topological order
\* that has any
validate_first_message ==
    LET ts == topological_sort(g)
        messages == validate_input_dependencies(
                        ts.order, [n \in NodesOf(g) |-> <<>>], {})
        bad == {i \in 1..Len(ts.order) :
                  \E m \in messages : m[2] = ts.order[i]}
    IN IF ts.cyclic
       THEN [raises |-> TRUE, messages |-> {<<"is not a DAG", g.name>>}]
       ELSE [raises |-> messages # {},
             messages |-> {m \in messages : \A i \in bad :
                             \E j \in bad : j <= i /\ ts.order[j] = m[2]}]

\* the required inputs <<node, parameter>> for which
\* NodeExecutor.resolve_input_serializer raises RuntimeException
unresolved_input_serializers ==
    {<<n, get_required_inputs(n)[i].name>> : <<n, i>> \in
        {<<m, j>> \in NodesOf(g) \X (1..3) :
            /\ j <= Len(get_required_inputs(m))
            /\ IsNone(resolve_input_serializer(
                   files, m, get_required_inputs(m)[j]))}}

\* NamespaceExecutor.validate: the ValidationException it raises, if any.
\* validate_input_dependencies asks for the serializer of every required
\* input after collecting the node's messages; the RuntimeException of an
\* unresolved one leaves the loop as to_validaton_exception()
validate ==
    LET ts == topological_sort(g)
        messages == validate_input_dependencies(
                        ts.order, [n \in NodesOf(g) |-> <<>>], {})
        unresolved == {u \in unresolved_input_serializers :
                         u[1] \in Range(ts.order)}
    IN IF ts.cyclic
       THEN [raises |-> TRUE, messages |-> {<<"is not a DAG", g.name>>}]
       ELSE IF unresolved # {}
       THEN to_validaton_exception("RuntimeException")
       ELSE [raises |-> messages # {}, messages |-> messages]

\* the orders a list can be written in
Orderings(s) ==
    {t \in [1..Len(s) -> Range(s)] :
        \A x \in Range(s) : Cardinality({i \in 1..Len(s) : t[i] = x})
                              = Cardinality({i \in 1..Len(s) : s[i] = x})}

\* the declarations of the same graph: root_nodes and every node's
\* subsequent_nodes in any order
Reorderings(G) ==
    {[G EXCEPT !.roots = r,
               !.nodes = [n \in NodesOf(G) |->
                            [G.nodes[n] EXCEPT !.succ = sc[n]]]] :
        r \in Orderings(G.roots),
        sc \in {f \in [NodesOf(G) ->
                          UNION {Orderings(G.nodes[n].succ) : n \in NodesOf(G)}] :
                  \A n \in NodesOf(G) : f[n] \in Orderings(G.nodes[n].succ)}}

InitOrder ==
    /\ InitEngine
    /\ call = [op |-> "validate"]
    /\ ret = <<>>

\* NamespaceValidator.validate(namespace) and NamespaceExecutor.validate()
\* on the namespace as it is declared now
ValidateGraph ==
    /\ Len(ret) < MaxValidations
    /\ ret' = Append(ret,
                 [roots |-> g.roots,
                  succ |-> [n \in NodesOf(g) |-> g.nodes[n].succ],
                  namespace |-> NamespaceValidator_validate,
                  executor |-> validate])
    /\ UNCHANGED <<engine_vars, call>>

\* the user declares the same graph in another order
ReorderGraph ==
    /\ g' \in Reorderings(g) \ {g}
    /\ UNCHANGED <<graph, cached, run, phase, pos, state, inbox, args, meta,
                   disk, files, invoked, wrote, failure, logged, raised,
                   faults, changed, prevOk, atExec, ns, rec, namespaces,
                   trees, ran, call, ret, cex, atStart>>

NextOrder ==
    \/ ValidateGraph
    \/ ReorderGraph

SpecOrder == InitOrder /\ [][NextOrder]_vars

(***************************************************************************)
(* Serializer registration and resolution.  The user registers serializers *)
(* with the engine object pipeline.cex; every run builds a CexExecutor and *)
(* resolves the serializer of an input of the node through it.             *)
(***************************************************************************)
MaxAdded == 1

\* Node(..., input_serializers=...)
WithInputSerializers(decl, sers) ==
    [f \in DOMAIN decl \cup {"input_serializers"} |->
        IF f = "input_serializers" THEN sers ELSE decl[f]]

\* one node with the parameters data:dict and k:int, a file data<ext> in
\* its input directory and a serializer for int bound in the namespace
GraphSerializers(sers, ext) ==
    [name |-> "Serializers", roots |-> <<1>>, nsTypes |-> ("int" :> "json"),
     nodes |-> <<
       WithInputSerializers(
         NodeDecl(<<Param("data", "dict"), Param("k", "int")>>, NoAliases,
                  Some("copy"), "int", Some(<<File("data", ext)>>), <<>>),
         sers) >>]

SerializerGraphs ==
    {GraphSerializers(sers, ext) :
        sers \in {None, Some(OneSerializer("pickle")),
                  Some(ByName("data" :> "yaml")), Some(ByName("k" :> "yaml"))},
        ext \in {".csv", ".dat", ".json"}}

\* the DataInformation a run asks a serializer for: a required input, or
\* the file of the input directory under a parameter's name and type
ResolvedInputs ==
    {DataInformation(pr[1], pr[2], path) :
        pr \in {<<"data", "dict">>, <<"k", "int">>},
        path \in {None, Some(InPath(1, "data"))}}

InitSerializers ==
    /\ g \in SerializerGraphs
    /\ InitNamespace
    /\ call = [op |-> "resolve_input_serializer"]
    /\ ret = <<>>

\* Cex.add_serializer_for_type
add_serializer_for_type ==
    /\ \E T \in {"dict", "int"}, S \in {"custom", "csv"} :
          cex' = [cex EXCEPT !.serilizers_by_type = (T :> S) @@ @]
    /\ UNCHANGED <<g, graph, cached, run, phase, pos, state, inbox, args, meta,
                   disk, files, invoked, wrote, failure, logged, raised,
                   faults, changed, prevOk, atExec, ns, rec, namespaces,
                   trees, ran, call, ret, atStart>>

\* Cex.add_serializer
add_serializer ==
    /\ Len(cex.default_serializers) < Len(default_serializers) + MaxAdded
    /\ cex' = [cex EXCEPT !.default_serializers = Append(@, "custom")]
    /\ UNCHANGED <<g, graph, cached, run, phase, pos, state, inbox, args, meta,
                   disk, files, invoked, wrote, failure, logged, raised,
                   faults, changed, prevOk, atExec, ns, rec, namespaces,
                   trees, ran, call, ret, atStart>>

\* a run resolves the serializer of one input of the node
ResolveInput ==
    /\ \E input \in ResolvedInputs :
          ret' = [input |-> input,
                  engine |-> cex,
                  serializer |-> resolve_input_serializer(files, 1, input)]
    /\ UNCHANGED <<engine_vars, call>>

NextSerializers ==
    \/ add_serializer_for_type
    \/ add_serializer
    \/ ResolveInput

SpecSerializers == InitSerializers /\ [][NextSerializers]_vars

(***************************************************************************)
(* Scored matching of a required input against a list of candidates.       *)
(* DataInformation.get_match and get_best_match are applied to every       *)
(* candidate list of up to MaxOthers entries.                              *)
(***************************************************************************)
MaxOthers == 2

\* DataMatch (IntEnum)
NAME_AND_ANNOTATION == 3
NAME == 2
ANNOTATION == 1
NONE == 0

get_match(self, other, name_aliases) ==
    LET name_matches == other.name = self.name \/ other.name \in Range(name_aliases)
        type_matches == other.type = NoneT \/ self.type = NoneT \/ other.type = self.type
    IN IF name_matches /\ type_matches THEN NAME_AND_ANNOTATION
       ELSE IF name_matches THEN NAME
       ELSE IF type_matches THEN ANNOTATION
       ELSE NONE

RECURSIVE get_best_match_loop(_, _, _, _, _)
\* the loop of get_best_match over the remaining options; best_score is the
\* local the loop compares with and never assigns
get_best_match_loop(self, others, name_aliases, best_score, best_value) ==
    IF others = <<>> THEN [raises |-> FALSE, value |-> best_value]
    ELSE LET option == Head(others)
             match == get_match(self, option, name_aliases)
         IN IF best_score = match /\ best_score > NONE
            THEN [raises |-> TRUE, value |-> None]
            ELSE get_best_match_loop(self, Tail(others), name_aliases, best_score,
                                     IF best_score < match THEN Some(option)
                                     ELSE best_value)

get_best_match(self, others, name_aliases) ==
    get_best_match_loop(self, others, name_aliases, NONE, None)

\* the candidates offered: every name and annotation the required input
\* can agree or disagree with
Candidates ==
    {DataInformation(name, type, None) :
        name \in {"a", "b"}, type \in {NoneT, "int", "str"}}

CandidateLists == UNION {[1..k -> Candidates] : k \in 0..MaxOthers}

InitMatch ==
    /\ InitEngine
    /\ g = GraphUnannotated
    /\ cached = [n \in NodesOf(g) |-> FALSE]
    /\ ret = <<>>
    /\ \E type \in {NoneT, "int"}, others \in CandidateLists,
          name_aliases \in {<<>>, <<"b">>} :
          call = [op |-> "get_best_match",
                  self |-> DataInformation("a", type, None),
                  others |-> others, name_aliases |-> name_aliases]

GetBestMatch ==
    /\ ret = <<>>
    /\ ret' = <<get_best_match(call.self, call.others, call.name_aliases)>>
    /\ UNCHANGED <<engine_vars, call>>

NextMatch == GetBestMatch

SpecMatch == InitMatch /\ [][NextMatch]_vars

(***************************************************************************)
(* Reconciliation of a namespace's stored metadata with its live nodes.    *)
(* A live node is described by what the metadata reads of it: its          *)
(* persistent hash and the keys of its function's annotations.  The stored *)
(* list holds at most one NodeMeta per hash, as init_from leaves it for    *)
(* nodes of distinct hashes.                                               *)
(***************************************************************************)
MaxLive == 2

\* NodeMeta.__init__
NodeMeta(hash, input_hashes) == [hash |-> hash, input_hashes |-> input_hashes]

\* NodeMeta.init_from: dict.fromkeys leaves every key without a hash
init_from(node) == NodeMeta(node.hash, [k \in node.keys |-> None])

\* NodeMeta.update_from: the entry is rewritten in place over the node's keys,
\* stored hashes kept; the method has no return statement
NodeMeta_update_from(self, node) ==
    [self |-> [self EXCEPT !.input_hashes =
                  [k \in node.keys |->
                      IF k \in DOMAIN self.input_hashes
                      THEN self.input_hashes[k] ELSE None]],
     returns |-> None]

\* NamespaceMeta.get_node_meta: the first stored entry of that hash
get_node_meta(stored, hash) ==
    LET found == {i \in DOMAIN stored : stored[i].hash = hash}
    IN IF found = {} THEN None
       ELSE Some(stored[CHOOSE i \in found : \A j \in found : i <= j])

\* NamespaceMeta.update_from: the new list of entries, one appended per live
\* node: a fresh NodeMeta, or what NodeMeta.update_from returned
NamespaceMeta_update_from(stored, nodes) ==
    [i \in DOMAIN nodes |->
        LET current_meta == get_node_meta(stored, nodes[i].hash)
        IN IF IsNone(current_meta)
           THEN Some(init_from(nodes[i]))
           ELSE NodeMeta_update_from(Get(current_meta), nodes[i]).returns]

StoredHash == Some(<<"sha256", 0>>)

LiveNodes ==
    {[hash |-> h, keys |-> ks] :
        h \in {"h1", "h2", "h3"}, ks \in {{"x"}, {"x", "y"}}}

StoredMetas ==
    {NodeMeta(h, ih) :
        h \in {"h1", "h2"},
        ih \in {[k \in {"x"} |-> None], [k \in {"x"} |-> StoredHash]}}

StoredLists ==
    {s \in UNION {[1..k -> StoredMetas] : k \in 0..2} :
        \A i, j \in DOMAIN s : i # j => s[i].hash # s[j].hash}

InitMeta ==
    /\ InitEngine
    /\ g = GraphUnannotated
    /\ cached = [n \in NodesOf(g) |-> FALSE]
    /\ ret = <<>>
    /\ \E stored \in StoredLists,
          nodes \in UNION {[1..k -> LiveNodes] : k \in 0..MaxLive} :
          call = [op |-> "update_from", stored |-> stored, nodes |-> nodes]

UpdateFrom ==
    /\ ret = <<>>
    /\ ret' = <<NamespaceMeta_update_from(call.stored, call.nodes)>>
    /\ UNCHANGED <<engine_vars, call>>

NextMeta == UpdateFrom

SpecMeta == InitMeta /\ [][NextMeta]_vars

(***************************************************************************)
(* The input-currency query applied to every stored entry over the keys    *)
(* x and y, every parameter name and every hash, present or not.           *)
(***************************************************************************)
InputHashes == {None} \cup {Some(<<"sha256", v>>) : v \in 0..MaxVal}

InitCurrent ==
    /\ InitEngine
    /\ g = GraphUnannotated
    /\ cached = [n \in NodesOf(g) |-> FALSE]
    /\ ret = <<>>
    /\ \E keys \in SUBSET {"x", "y"}, name \in {"x", "y", "z"},
          hash \in InputHashes :
          \E input_hashes \in [keys -> InputHashes] :
             call = [op |-> "is_current_input",
                     meta |-> [input_hashes |-> input_hashes, output_hash |-> None],
                     name |-> name, hash |-> hash]

IsCurrentInput ==
    /\ ret = <<>>
    /\ ret' = <<is_current_input(call.meta, call.name, call.hash)>>
    /\ UNCHANGED <<engine_vars, call>>

NextCurrent == IsCurrentInput

SpecCurrent == InitCurrent /\ [][NextCurrent]_vars

(***************************************************************************)
(* Graph construction with the executors as objects.  Every call of        *)
(* create_executor allocates a new NodeExecutor; two executors are equal   *)
(* (and hash alike) when they wrap the same node, and a dictionary of the  *)
(* DiGraph keeps the key object it was first given.  ret holds the state   *)
(* of the traversal: the deque, the visited set, the DiGraph's node        *)
(* dictionary and adjacency, the number of pops and what each              *)
(* topological_sort of the finished graph yielded.                         *)
(***************************************************************************)
\* build_graph.create_executor: a new NodeExecutor, the next one allocated
create_executor(node, allocated) == [node |-> node, id |-> allocated + 1]

\* variant of the dictionary insertion: an equal key is stored again
graph_add_node_again(keys, executor) == Append(keys, executor)

\* insertion of a key into a dictionary of the DiGraph (add_node, and the
\* inner adjacency dictionary of add_edge): an equal key already there stays
graph_add_node(keys, executor) ==
    IF \E i \in DOMAIN keys : keys[i].node = executor.node THEN keys
    ELSE Append(keys, executor)

\* build_graph.callback(node, next): one executor for the node, added to
\* the graph, and one more per successor, given to add_edge
build_graph_callback(G, node, next) ==
    LET node_executor == create_executor(node, G.allocated)
        RECURSIVE add_edges(_, _)
        add_edges(H, rest) ==
            IF rest = <<>> THEN H
            ELSE LET v == create_executor(Head(rest), H.allocated)
                 IN add_edges(
                       [allocated |-> H.allocated + 1,
                        node |-> graph_add_node(
                                    graph_add_node(H.node, node_executor), v),
                        adj |-> [H.adj EXCEPT ![node] = graph_add_node(@, v)]],
                       Tail(rest))
    IN add_edges([allocated |-> G.allocated + 1,
                  node |-> graph_add_node(G.node, node_executor),
                  adj |-> G.adj], next)

\* networkx.topological_sort over the executors: a node without
\* predecessors is yielded as the key of the node dictionary, any other as
\* the adjacency key of the predecessor that brings its in-degree to zero
topological_sort_executors(G) ==
    LET V == {G.node[i].node : i \in DOMAIN G.node}
        indegree == [v \in V |->
                       Cardinality({u \in V : \E i \in DOMAIN G.adj[u] :
                                                  G.adj[u][i].node = v})]
        RECURSIVE children(_)
        children(gen) ==
            IF gen = <<>> THEN <<>>
            ELSE G.adj[Head(gen).node] \o children(Tail(gen))
        RECURSIVE lower(_, _, _)
        lower(cs, indeg, zero) ==
            IF cs = <<>> THEN [indeg |-> indeg, zero |-> zero]
            ELSE LET d == indeg[Head(cs).node] - 1
                 IN lower(Tail(cs), [indeg EXCEPT ![Head(cs).node] = d],
                          IF d = 0 THEN Append(zero, Head(cs)) ELSE zero)
        RECURSIVE generations(_, _, _)
        generations(zero, indeg, out) ==
            IF zero = <<>>
            THEN [order |-> out, cyclic |-> \E v \in V : indeg[v] > 0]
            ELSE LET r == lower(children(zero), indeg, <<>>)
                 IN generations(r.zero, r.indeg, out \o zero)
    IN generations(SelectSeq(G.node, LAMBDA e : indegree[e.node] = 0),
                   indegree, <<>>)

\* a node reached both directly from the root and through its other successor
GraphShortcut ==
    [name |-> "Shortcut", roots |-> <<1>>, nsTypes |-> ("int" :> "json"),
     nodes |-> <<
       NodeDecl(<<>>, NoAliases, Some("r"), "int", None, <<2, 3>>),
       NodeDecl(<<Param("r", "int")>>, NoAliases, Some("s"), "int", None, <<3>>),
       NodeDecl(<<Param("r", "int"), Param("s", "int")>>, NoAliases,
                Some("t"), "int", None, <<>>) >>]

InitBuild ==
    /\ g \in UNION {Reorderings(G) : G \in Graphs \cup {GraphShortcut}}
    /\ InitNamespace
    /\ cached = [n \in NodesOf(g) |-> FALSE]
    /\ call = [op |-> "build_graph"]
    /\ ret = [queue |-> g.roots, visited |-> {}, allocated |-> 0,
              node |-> <<>>, adj |-> [n \in NodesOf(g) |-> <<>>],
              pops |-> 0, sorted |-> <<>>]

\* one iteration of the loop of dfs
DfsStep ==
    /\ call.op = "build_graph"
    /\ ret.queue # <<>>
    /\ LET node == Last(ret.queue)
           next == g.nodes[node].succ
           G == build_graph_callback(ret, node, next)
       IN ret' = [ret EXCEPT
                    !.allocated = G.allocated, !.node = G.node, !.adj = G.adj,
                    !.pops = @ + 1,
                    !.queue = IF node \in ret.visited THEN Front(ret.queue)
                              ELSE Front(ret.queue) \o next,
                    !.visited = @ \cup {node}]
    /\ UNCHANGED <<engine_vars, call>>

\* nx.topological_sort(self.graph), by prepare_node_states and then by
\* execute
SortGraph ==
    /\ call.op = "build_graph"
    /\ ret.queue = <<>>
    /\ Len(ret.sorted) < 2
    /\ ret' = [ret EXCEPT !.sorted = Append(@, topological_sort_executors(ret))]
    /\ UNCHANGED <<engine_vars, call>>

NextBuild ==
    \/ DfsStep
    \/ SortGraph

SpecBuild == InitBuild /\ [][NextBuild]_vars

(***************************************************************************)
(* NodeValidator.validate on the bindings a node declares.  A declaration  *)
(* carries the number of parameters of its function, input_aliases (a      *)
(* dict: key -> one alias or a list of aliases; a key is the sequence of   *)
(* its characters), the output serializer and input_serializers (one       *)
(* object, a list or a dict of objects); an object is named by its class,  *)
(* "DataSerializer" for an implementation of the contract.                 *)
(***************************************************************************)
\* the messages of NodeValidator.validate about aliases and serializers
validate_bindings(node) ==
    LET RECURSIVE chain(_)
        \* itertools.chain.from_iterable(node.input_aliases): iterating the
        \* dict gives its keys, iterating a key gives its characters
        chain(keys) ==
            IF keys = {} THEN <<>>
            ELSE LET k == CHOOSE x \in keys : TRUE
                 IN k \o chain(keys \ {k})
        flat_aliases ==
            IF IsNone(node.input_aliases) THEN <<>>
            ELSE chain(DOMAIN Get(node.input_aliases))
        \* "not isinstance(...) is not None": isinstance gives a bool, a
        \* bool is not None, so the condition is the negation of True
        output_invalid ==
            /\ ~IsNone(node.output_serializer)
            /\ ~((Get(node.output_serializer) = "DataSerializer") \in BOOLEAN)
        sers == Get(node.input_serializers)
    IN (IF Len(flat_aliases) # Cardinality(Range(flat_aliases))
        THEN {"Duplicate input aliases"} ELSE {})
       \cup (IF output_invalid THEN {"output serializer"} ELSE {})
       \cup (IF IsNone(node.input_serializers) THEN {}
             ELSE (IF sers.form = "list"
                      /\ \E i \in DOMAIN sers.items : sers.items[i] # "DataSerializer"
                   THEN {"input serializer"} ELSE {})
                  \cup (IF sers.form = "one" /\ sers.items[1] = "DataSerializer"
                           /\ node.parameters > 1
                        THEN {"multiple inputs but only one serializer"} ELSE {})
                  \cup (IF ~(sers.form = "one" /\ sers.items[1] = "DataSerializer")
                        THEN {"input serializer"} ELSE {}))

InitBindings ==
    /\ InitEngine
    /\ g = GraphUnannotated
    /\ cached = [n \in NodesOf(g) |-> FALSE]
    /\ ret = <<>>
    /\ \E parameters \in 0..2,
          keys \in {K \in SUBSET {<<"a">>, <<"b">>, <<"a", "b">>, <<"x", "x">>} :
                       Cardinality(K) <= 2},
          output_serializer \in {None, Some("DataSerializer"), Some("object")},
          bound \in
             {None} \cup
             {Some([form |-> f, items |-> <<c>>]) :
                 f \in {"one", "list", "dict"}, c \in {"DataSerializer", "object"}} :
          \E aliases \in [keys -> {[str |-> TRUE, names |-> <<"s">>],
                                    [str |-> FALSE, names |-> <<"s">>],
                                    [str |-> FALSE, names |-> <<"s", "t">>],
                                    [str |-> FALSE, names |-> <<"u", "u">>]}],
             none \in BOOLEAN :
             /\ none => keys = {}
             /\ call = [op |-> "NodeValidator.validate",
                        parameters |-> parameters,
                        input_aliases |-> IF none THEN None ELSE Some(aliases),
                        output_serializer |-> output_serializer,
                        input_serializers |-> bound]

ValidateBindings ==
    /\ ret = <<>>
    /\ ret' = <<validate_bindings(call)>>
    /\ UNCHANGED <<engine_vars, call>>

NextBindings == ValidateBindings

SpecBindings == InitBindings /\ [][NextBindings]_vars

(***************************************************************************)
(* The engine with the metadata records as the store holds them when       *)
(* execute_pipeline is entered.  call holds what the MetadataProvider read *)
(* at start-up: no record (no cex.json, the first run), the record of the  *)
(* namespace with an entry for every node, or that record without the      *)
(* entry of one node (a node added since).  execute_pipeline builds the    *)
(* NamespaceExecutor, prepares and executes; nothing on this path creates  *)
(* or updates a record.                                                    *)
(***************************************************************************)
\* NodeExecutor.meta: raises when get_namespace or get_node_meta gives None
NodeExecutor_meta(n) ==
    LET list == call.namespaces
    IN IF \A i \in 1..Len(list) : list[i].name # ns.name
       THEN [raises |-> TRUE, message |-> "Missing namespace meta"]
       ELSE IF n \notin list[get_namespace(list, ns.name)].nodes
       THEN [raises |-> TRUE, message |-> "Missing node meta"]
       ELSE [raises |-> FALSE, message |-> ""]

\* the step at hand reads node.meta and node.meta raises: in
\* prepare_node_states for a cached node one of whose resolved inputs has a
\* hash, in node.execute for a node that stores an output or an input hash
queries_missing_meta ==
    /\ pos <= Len(Order)
    /\ NodeExecutor_meta(Order[pos]).raises
    /\ LET node == Order[pos]
           output == get_output_information(files, node)
           offered ==
               IF ~IsNone(output.info) /\ Len(g.nodes[node].succ) > 0
               THEN append_multiple(inbox, subsequent_node_ids(node),
                        IF cached[node] THEN with_hash(files, Get(output.info))
                        ELSE Get(output.info))
               ELSE inbox
           resolved == resolve_node_inputs(files, node, offered[node])
       IN \/ /\ phase = "prepare"
             /\ ~output.raises /\ cached[node] /\ resolved.ok
             /\ \E name \in DOMAIN resolved.inputs :
                   ~IsNone(resolved.inputs[name].hash)
          \/ /\ phase = "execute"
             /\ state[node] = RUNNING
             /\ ~output.raises
             /\ ~\E k \in DOMAIN args : resolve_value_raises(files, node, args[k])
             /\ \/ cached[node] /\ ~IsNone(output.info)
                \/ \E k \in DOMAIN args : ~IsNone(args[k].hash)

InitStore ==
    /\ InitEngine
    /\ ret = <<>>
    /\ \E nodes \in {D \in SUBSET NodesOf(g) :
                        Cardinality(D) >= Cardinality(NodesOf(g)) - 1},
          present \in BOOLEAN :
          call = [op |-> "MetadataProvider",
                  namespaces |-> IF present
                                 THEN <<[name |-> "ns1", nodes |-> nodes]>>
                                 ELSE <<>>]

PrepareNodeWithMeta == ~queries_missing_meta /\ PrepareNode

ExecuteNodeWithMeta == ~queries_missing_meta /\ ExecuteNode

\* prepare_node_states reaches node.meta.is_current_input and node.meta
\* raises: the exception leaves prepare() with the node's state not set
PrepareNodeWithoutMeta ==
    /\ phase = "prepare"
    /\ queries_missing_meta
    /\ Fails("Exception")
    /\ inbox' = [inbox EXCEPT ![Order[pos]] = <<>>]
    /\ UNCHANGED <<ns, rec, namespaces, trees, ran, call, ret, cex, atStart>>
    /\ UNCHANGED <<g, graph, cached, run, pos, state, args, meta, disk, files,
                   invoked, wrote, faults, changed, prevOk, atExec>>

\* node.execute reaches self.meta.update_output_hash (the output is saved
\* by then) or self.meta.update_input_hash and self.meta raises
ExecuteNodeWithoutMeta ==
    /\ phase = "execute"
    /\ queries_missing_meta
    /\ LET node == Order[pos]
           input_values == [k \in DOMAIN args |-> resolve_value(files, args[k])]
           value == function(node, input_values)
           output == get_output_information(files, node)
       IN /\ invoked' = invoked \cup {node}
          /\ files' = IF cached[node] /\ ~IsNone(output.info)
                      THEN [files EXCEPT ![OutPath(node)] = Some(value)]
                      ELSE files
          /\ args' = <<>>
          /\ NodeFails(node, "Exception")
    /\ UNCHANGED <<ns, rec, namespaces, trees, ran, call, ret, cex, atStart>>
    /\ UNCHANGED <<g, graph, cached, run, inbox, meta, disk, wrote, faults,
                   changed, prevOk, atExec>>

NextStore ==
    \/ StartRun
    \/ PrepareNodeWithMeta
    \/ PrepareNodeWithoutMeta
    \/ PrepareEnd
    \/ ExecuteSkip
    \/ ExecuteBegin
    \/ ExecuteNodeWithMeta
    \/ ExecuteNodeWithoutMeta
    \/ ExecuteEnd
    \/ ChangeFile

SpecStore == InitStore /\ [][NextStore]_vars

(***************************************************************************)
(* Two nodes of one graph and the NodeMeta entries their executors use.    *)
(* call holds the two declarations (distinct runtime_id); ret holds the    *)
(* NamespaceMeta.nodes list NamespaceMeta.init_from made for them and, for *)
(* each node, the input hashes its own executor has stored.                *)
(***************************************************************************)
\* the position in the NamespaceMeta.nodes list of the entry
\* NodeExecutor.meta returns for the node: the first of its persistent hash
node_meta_index(stored, node) ==
    CHOOSE i \in DOMAIN stored :
        /\ Some(stored[i]) = get_node_meta(stored, get_persistent_hash(node))
        /\ \A j \in 1..(i - 1) : stored[j].hash # stored[i].hash

InitShared ==
    /\ InitEngine
    /\ g = GraphUnannotated
    /\ cached = [n \in NodesOf(g) |-> FALSE]
    /\ \E names \in {<<"a">>, <<"b">>} \X {<<"a">>, <<"b">>},
          caching \in BOOLEAN \X BOOLEAN,
          outputs \in {None, Some(<<"x">>)} \X {None, Some(<<"x">>)} :
          LET nodes == [i \in 1..2 |->
                          [Node(names[i], caching[i], <<"m", ".", "f">>,
                                outputs[i], None, None, None)
                             EXCEPT !.runtime_id = i]]
          IN /\ call = [op |-> "NodeExecutor.meta", nodes |-> nodes]
             /\ ret = [nodes |-> [i \in 1..2 |->
                                    init_from([hash |-> get_persistent_hash(nodes[i]),
                                               keys |-> {"x"}])],
                       own |-> [i \in 1..2 |-> [k \in {"x"} |-> None]]]

\* the executor of one of the nodes stores the hash of its input x:
\* self.meta.update_input_hash("x", hash)
UpdateInputHash ==
    /\ call.op = "NodeExecutor.meta"
    /\ \E i \in 1..2, v \in 0..MaxVal :
          LET entry == node_meta_index(ret.nodes, call.nodes[i])
              hash == Some(<<"sha256", v>>)
          IN ret' = [nodes |-> [ret.nodes EXCEPT ![entry] =
                                   update_input_hash(@, "x", hash)],
                     own |-> [ret.own EXCEPT ![i] =
                                   [k \in {"x"} |-> hash]]]
    /\ UNCHANGED <<engine_vars, call>>

NextShared == UpdateInputHash

SpecShared == InitShared /\ [][NextShared]_vars

(***************************************************************************)
(* The file a default serializer saves and the serializer the engine       *)
(* resolves for it.  A file name is the list of its dot-separated pieces,  *)
(* every piece but the first carrying its leading dot; a path is a list of *)
(* directories and a file name.                                            *)
(***************************************************************************)
\* Path.suffix: the last piece of the final component, "" when the name
\* has no dot after its first piece
Path_suffix(path) ==
    IF Len(path.name) > 1 THEN path.name[Len(path.name)] ELSE ""

\* get_output_path: output directory / (output_name + get_file_extension())
get_output_path(directory, output_name, serializer) ==
    [parent |-> directory,
     name |-> Append(output_name, get_file_extension(serializer))]

InitSaved ==
    /\ InitEngine
    /\ g = GraphUnannotated
    /\ cached = [n \in NodesOf(g) |-> FALSE]
    /\ ret = <<>>
    /\ \E i \in DOMAIN default_serializers,
          directory \in {<<"a">>, <<"out.d">>, <<"a", "b.json">>},
          output_name \in {<<"x">>, <<"x", ".y">>, <<"x", ".json">>,
                           <<"json">>} :
          call = [op |-> "resolve_serializer",
                  serializer |-> default_serializers[i],
                  path |-> get_output_path(directory, output_name,
                                           default_serializers[i])]

\* CexExecutor.resolve_serializer on the saved file: the suffix of the
\* path, matches_file of the serializer that wrote it, and the first
\* default serializer that matches
ResolveSaved ==
    /\ call # <<>> /\ call.op = "resolve_serializer" /\ ret = <<>>
    /\ LET extension == Path_suffix(call.path)
       IN ret' = [extension |-> extension,
                  matches |-> matches_file(call.serializer, extension),
                  resolved |-> FirstMatching(CexExecutor(cex).default_serializers,
                                             extension)]
    /\ UNCHANGED <<engine_vars, call>>

NextSaved == ResolveSaved

SpecSaved == InitSaved /\ [][NextSaved]_vars

(***************************************************************************)
(* Vocabulary of the properties.                                           *)
(***************************************************************************)
Cached == {n \in NodesOf(g) : cached[n]}
HasOutput(n) == ~IsNone(g.nodes[n].outName) /\ g.nodes[n].outType # NoneT
Predecessors(n) == {p \in NodesOf(g) : n \in Range(g.nodes[p].succ)}

RECURSIVE Descendants(_)
\* the nodes reachable from the set S through subsequent_nodes, S included
Descendants(S) ==
    LET T == S \cup UNION {Range(g.nodes[n].succ) : n \in S}
    IN IF T = S THEN S ELSE Descendants(T)

\* run() has returned
RunEnded == phase = "done" /\ run >= 1
\* run() has returned, the run before it succeeded, the user changed
\* exactly the paths P in between and no failure was injected
ReRunAfter(P) ==
    RunEnded /\ run >= 2 /\ prevOk /\ ChangesAfter(run - 1) = P /\ faults = 0
\* the node that owns the input file at path p
OwnerOf(p) == p[2]
\* the <<node, parameter>> pairs validate_input_dependencies reports: the
\* required inputs with no or with several matching available inputs
InputDefects ==
    validate_input_dependencies(graph.order,
                                [n \in NodesOf(g) |-> <<>>], {})
\* node n has one parameter and a file of its input_directory carries one
\* of the parameter's aliases as its name
FileFed(n) ==
    /\ Len(g.nodes[n].params) = 1
    /\ ~IsNone(g.nodes[n].dir)
    /\ \E i \in 1..Len(Get(g.nodes[n].dir)) :
         Get(g.nodes[n].dir)[i].stem
            \in Range(get_input_aliases(n, g.nodes[n].params[1].name))

(***************************************************************************)
(* C1.  If run(G) succeeds and is invoked again with no file or node       *)
(* attribute changed, the second run sets every cached node to SKIPPED     *)
(* and invokes no user function of a cached node.                          *)
(***************************************************************************)
C1_UnchangedReRunSkipsEveryCachedNode ==
    ReRunAfter({}) =>
        /\ \A n \in Cached : state[n] = SKIPPED
        /\ invoked \cap Cached = {}

(***************************************************************************)
(* C2.  After a successful run and a change of exactly one input file,     *)
(* the cached nodes invoked by the next run are exactly the cached nodes   *)
(* that depend on that file, every other cached node is SKIPPED, and no    *)
(* cached node is SKIPPED while one of its predecessors re-executes.       *)
(***************************************************************************)
C2_ExactlyTheDependentsReExecute ==
    \A p \in InputPaths(g) :
        ReRunAfter({p}) =>
            LET deps == Cached \cap Descendants({OwnerOf(p)})
            IN /\ invoked \cap Cached = deps
               /\ \A n \in Cached \ deps : state[n] = SKIPPED
               /\ \A n \in Cached :
                     state[n] = SKIPPED => Predecessors(n) \cap invoked = {}

(***************************************************************************)
(* C3.  A cached node with an output is SKIPPED only if an output hash is  *)
(* stored for it and its output file exists; on the first run, with an     *)
(* empty metadata store, no cached node is SKIPPED.                        *)
(***************************************************************************)
C3_SkippedOnlyWithStoredOutput ==
    \A n \in Cached :
        (HasOutput(n) /\ state[n] = SKIPPED) =>
            /\ ~IsNone(meta[n].output_hash)
            /\ ~IsNone(files[OutPath(n)])
            /\ run # 1

(***************************************************************************)
(* C4.  If some required input of some node, cached or not, has zero or    *)
(* several matching available inputs, the run aborts before execution: no  *)
(* user function is invoked, no output file or metadata is written.        *)
(***************************************************************************)
C4_InputDefectAbortsBeforeExecution ==
    (run >= 1 /\ ~graph.cyclic /\ InputDefects # {}) =>
        invoked = {} /\ wrote = {}

(***************************************************************************)
(* C5.  If the declared graph contains a cycle, run fails with a           *)
(* validation failure, no user function is invoked and nothing is written. *)
(***************************************************************************)
C5_CycleIsAValidationFailure ==
    (RunEnded /\ graph.cyclic) =>
        /\ failure = "ValidationException"
        /\ invoked = {}
        /\ wrote = {}

(***************************************************************************)
(* C6.  Once a node is in ERROR, no user function is invoked and no node   *)
(* changes state for the remainder of that run.                            *)
(***************************************************************************)
C6_ErrorAbortsTheRun ==
    [][((\E n \in NodesOf(g) : state[n] = ERROR) /\ run' = run)
          => (state' = state /\ invoked' = invoked)]_vars

\* a user function raised: its node is in ERROR and a node later in the
\* topological order is left READY when run() returns
C6_Witness ==
    /\ RunEnded
    /\ failure = "Exception"
    /\ \E i, j \in 1..Len(graph.order) :
         /\ i < j
         /\ graph.order[i] \in invoked
         /\ state[graph.order[i]] = ERROR
         /\ state[graph.order[j]] = READY

C9_DiamondReExecutesCombineOnly ==
    (g = GraphDiamond /\ Cached = NodesOf(g) /\ ReRunAfter({OutPath(2)})) =>
        invoked = {4} /\ state[4] = EXECUTED

(***************************************************************************)
(* C10.  A file of input_directory (type unknown) matches a required       *)
(* input of any declared type when its name is among the aliases; hence a  *)
(* cached node whose only parameter is fed by such a file is EXECUTED on   *)
(* the first run when nothing else fails.                                  *)
(***************************************************************************)
C10_UnknownTypeMatchesAnyDeclaredType ==
    \A n \in NodesOf(g) :
        /\ \A i \in 1..Len(get_required_inputs(n)) :
             \A j \in 1..Len(get_available_file_inputs(files, n)) :
                LET required == get_required_inputs(n)[i]
                    available == get_available_file_inputs(files, n)[j]
                    aliases == get_input_aliases(n, required.name)
                IN available.name \in Range(aliases)
                      => match_static(required, available, aliases)
        /\ (cached[n] /\ FileFed(n) /\ RunEnded /\ run = 1 /\ faults = 0)
              => state[n] = EXECUTED

(***************************************************************************)
(* C11.  Aliases replace the parameter name: an output offered by a        *)
(* predecessor matches a required input by name only if its name is in     *)
(* the alias list; so in GraphAliased the successor is never set to ERROR  *)
(* and the input it runs with is the one named "x_from_A".                 *)
(***************************************************************************)
C11_AliasesReplaceTheParameterName ==
    /\ \A n \in NodesOf(g) : \A p \in Predecessors(n) :
          \A i \in 1..Len(get_required_inputs(n)) :
             LET required == get_required_inputs(n)[i]
                 output == get_output_information(files, p).info
                 aliases == get_input_aliases(n, required.name)
             IN (~IsNone(output)
                 /\ match_static(required, Get(output), aliases))
                   => Get(output).name \in Range(aliases)
    /\ g = GraphAliased =>
          /\ state[3] # ERROR
          /\ (state[3] = RUNNING => args["x"].name = "x_from_A")

(***************************************************************************)
(* C12.  A user function is invoked only after every predecessor of its    *)
(* node is EXECUTED or SKIPPED, and a step in which a node is prepared or  *)
(* starts running consumes an output file hash or value only of            *)
(* predecessors that are EXECUTED or SKIPPED.                              *)
(***************************************************************************)
C12_PredecessorsCompleteBeforeTheirOutputIsRead ==
    [][/\ \A n \in invoked' \ invoked : \A p \in Predecessors(n) :
             state[p] \in {EXECUTED, SKIPPED}
       /\ \A n \in NodesOf(g) :
             (/\ run' = run
              /\ state'[n] # state[n]
              /\ state[n] \in {UNINITIALIZED, READY}
              /\ cached[n] \/ phase = "execute")
               => \A i \in 1..Len(inbox[n]) :
                     (~IsNone(inbox[n][i].hash) \/ ~IsNone(inbox[n][i].value))
                       => \E p \in Predecessors(n) :
                             /\ inbox[n][i].name = Get(g.nodes[p].outName)
                             /\ state[p] \in {EXECUTED, SKIPPED}]_vars

\* the metadata store in memory: the record in use carries meta and disk
StoreNow ==
    [namespaces EXCEPT ![rec] = [@ EXCEPT !.nodes = meta, !.disk = disk]]
\* the files under every namespace path
TreesNow == [trees EXCEPT ![ns.path] = files]

C14_PersistentHashOfStableAttributes ==
    ret # <<>> =>
        /\ ret.of = "twin" => ret.hash = ret.other_hash
        /\ ret.of = "renamed" =>
              ret.string # ret.other_string /\ ret.hash # ret.other_hash

\* a twin with the two aliases inserted in the other order, another
\* runtime_id and a subsequent node
C14_Witness ==
    /\ ret # <<>>
    /\ ret.of = "twin"
    /\ ~IsNone(ret.node.input_aliases)
    /\ Len(Get(ret.node.input_aliases)) = 2
    /\ ret.other.input_aliases # ret.node.input_aliases
    /\ ret.other.runtime_id # ret.node.runtime_id
    /\ ret.other.subsequent_nodes # ret.node.subsequent_nodes

(***************************************************************************)
(* C15: the validation messages of a namespace do not depend on the order  *)
(* root_nodes or any node's subsequent_nodes are listed in, and validating *)
(* the same namespace twice gives the same messages: every validation of   *)
(* the graph, in whatever declaration order, yields the same set of        *)
(* NamespaceValidator messages and the same ValidationException of         *)
(* NamespaceExecutor.validate.                                             *)
(***************************************************************************)
C15_ValidationIsOrderIndependent ==
    \A i, j \in DOMAIN ret :
        /\ ret[i].namespace = ret[j].namespace
        /\ ret[i].executor = ret[j].executor

\* a graph with messages was validated under two different declarations
C15_Witness ==
    \E i, j \in DOMAIN ret :
        /\ ret[i].roots # ret[j].roots \/ ret[i].succ # ret[j].succ
        /\ ret[i].executor.messages # {}
        /\ Cardinality(ret[i].executor.messages) >= 2

(***************************************************************************)
(* C16: a ValidationFailure carries one message for every defect of the    *)
(* graph: when an acyclic graph has unsatisfied or ambiguous inputs and    *)
(* inputs without a resolvable serializer, the exception validate() raises *)
(* has a message for each of them and never an empty message list.         *)
(***************************************************************************)
C16_FailureCarriesEveryDefect ==
    \A i \in DOMAIN ret :
        (/\ ret[i].roots = g.roots
         /\ ret[i].succ = [n \in NodesOf(g) |-> g.nodes[n].succ]
         /\ ~topological_sort(g).cyclic)
        => LET e == ret[i].executor
               inputs == validate_input_dependencies(
                             topological_sort(g).order,
                             [n \in NodesOf(g) |-> <<>>], {})
           IN /\ e.raises => e.messages # {}
              /\ inputs \subseteq e.messages
              /\ \A u \in unresolved_input_serializers :
                    \E m \in e.messages : m[2] = u[1] /\ m[3] = u[2]

(***************************************************************************)
(* C17: a serializer registered with the engine is used by later runs:     *)
(* after add_serializer_for_type(T, S) the serializer resolved for an      *)
(* input of type T that has no node-level and no namespace-level binding   *)
(* is S, and after add_serializer(S) an input file whose extension only S  *)
(* matches resolves to S.                                                  *)
(***************************************************************************)
C17_EngineRegistrationsAreUsed ==
    ret # <<>> =>
      LET T == ret.input.type
          unbound == IsNone(input_serializers(1)) /\ T \notin DOMAIN g.nsTypes
          by_type == ret.engine.serilizers_by_type
      IN /\ (unbound /\ T \in DOMAIN by_type)
              => ret.serializer = Some(by_type[T])
         /\ (/\ unbound
             /\ T \notin DOMAIN by_type
             /\ "custom" \in Range(ret.engine.default_serializers)
             /\ ~IsNone(ret.input.path)
             /\ Suffix(Get(ret.input.path)) = ".dat")
              => ret.serializer = Some("custom")

(***************************************************************************)
(* C18: the serializer of an input is the first one found in the order     *)
(* node scope, namespace type map, engine type map, engine default by      *)
(* file extension; resolution fails only when all four miss, and a         *)
(* per-name mapping of the node without an entry for the parameter goes on *)
(* to the namespace.                                                       *)
(***************************************************************************)
C18_InputSerializerResolutionOrder ==
    ret # <<>> =>
      LET input == ret.input
          own == input_serializers(1)
          by_type == ret.engine.serilizers_by_type
      IN ret.serializer =
           (IF ~IsNone(own) /\ Get(own).single THEN Some(Get(own).one)
            ELSE IF ~IsNone(own) /\ input.name \in DOMAIN Get(own).by_name
            THEN Some(Get(own).by_name[input.name])
            ELSE IF input.type \in DOMAIN g.nsTypes
            THEN Some(g.nsTypes[input.type])
            ELSE IF input.type \in DOMAIN by_type
            THEN Some(by_type[input.type])
            ELSE IF ~IsNone(input.path) /\ ~IsNone(files[Get(input.path)])
            THEN FirstMatching(ret.engine.default_serializers,
                               Suffix(Get(input.path)))
            ELSE None)

(***************************************************************************)
(* C19: a failing metadata flush is tolerated: when sync() raises after    *)
(* the node's function returned and its output was saved, the node is      *)
(* EXECUTED afterwards, its output is handed to its successors and the run *)
(* goes on with the next node.                                             *)
(***************************************************************************)
C19_FlushFailureIsTolerated ==
    [][phase = "sync" =>
         /\ state'[Order[pos]] = EXECUTED
         /\ phase' = "execute"
         /\ pos' = pos + 1
         /\ \A n \in Range(subsequent_node_ids(Order[pos])) :
               (cached[Order[pos]] /\ HasOutput(Order[pos]))
                 => Len(inbox'[n]) = Len(inbox[n]) + 1]_vars

(***************************************************************************)
(* C20: during the preparation and the execution of a run every change of  *)
(* a node's state is UNINITIALIZED -> READY, UNINITIALIZED -> SKIPPED,     *)
(* READY -> RUNNING, RUNNING -> EXECUTED or RUNNING -> ERROR; SKIPPED,     *)
(* EXECUTED and ERROR are never left.                                      *)
(***************************************************************************)
C20_NodeStateMachine ==
    [][run' = run =>
         \A n \in NodesOf(g) :
            state'[n] # state[n] =>
               <<state[n], state'[n]>> \in
                  {<<UNINITIALIZED, READY>>, <<UNINITIALIZED, SKIPPED>>,
                   <<READY, RUNNING>>, <<RUNNING, EXECUTED>>,
                   <<RUNNING, ERROR>>}]_vars

(***************************************************************************)
(* C21: in the execution phase, once a SKIPPED node with an output has     *)
(* been visited, every successor that is READY and not yet visited holds   *)
(* in its inbox the node's output DataInformation: path set, hash equal to *)
(* the stored output hash and no value.                                    *)
(***************************************************************************)
Visited(n) == \E i \in 1..(pos - 1) : i <= Len(Order) /\ Order[i] = n

C21_SkippedNodeEmitsItsOutput ==
    phase = "execute" =>
      \A n \in NodesOf(g) :
        (state[n] = SKIPPED /\ HasOutput(n) /\ Visited(n)) =>
          \A s \in Range(subsequent_node_ids(n)) :
            (state[s] = READY /\ ~Visited(s)) =>
              \E k \in 1..Len(inbox[s]) :
                 /\ inbox[s][k].name = Get(g.nodes[n].outName)
                 /\ inbox[s][k].path = Some(OutPath(n))
                 /\ inbox[s][k].hash = meta[n].output_hash
                 /\ IsNone(inbox[s][k].value)

(***************************************************************************)
(* C22: once a node with an output has executed successfully, cached or    *)
(* not, every successor that has not resolved its inputs yet holds in its  *)
(* inbox a DataInformation with the node's output name, its declared type  *)
(* and the value produced.                                                 *)
(***************************************************************************)
C22_ExecutedNodePropagatesItsValue ==
    phase = "execute" =>
      \A n \in NodesOf(g) :
        (state[n] = EXECUTED /\ HasOutput(n) /\ Visited(n)) =>
          \A s \in Range(subsequent_node_ids(n)) :
            (state[s] = READY /\ ~Visited(s)) =>
              \E k \in 1..Len(inbox[s]) :
                 /\ inbox[s][k].name = Get(g.nodes[n].outName)
                 /\ inbox[s][k].type = g.nodes[n].outType
                 /\ ~IsNone(inbox[s][k].value)

(***************************************************************************)
(* C23: the state a node gets in the preparation phase: a non-cached node  *)
(* becomes READY; a cached node becomes READY when, for at least one of    *)
(* its required inputs, the resolved input has no hash or a hash other     *)
(* than the one stored in its NodeMeta for that parameter, and SKIPPED     *)
(* otherwise.  A cached node with an input offered by a non-cached         *)
(* predecessor therefore becomes READY.                                    *)
(***************************************************************************)
C23_PreparedStateFollowsInputHashes ==
    [][(phase = "prepare" /\ pos <= Len(Order)
        /\ state'[Order[pos]] \in {READY, SKIPPED}) =>
         LET n == Order[pos]
             resolved == resolve_node_inputs(files, n, inbox[n]).inputs
             stale == {k \in DOMAIN resolved :
                         \/ IsNone(resolved[k].hash)
                         \/ resolved[k].hash # meta[n].input_hashes[k]}
         IN /\ ~cached[n] => state'[n] = READY
            /\ (cached[n] /\ stale # {}) => state'[n] = READY
            /\ (cached[n] /\ stale = {}) => state'[n] = SKIPPED
            /\ (cached[n] /\ \E k \in 1..Len(inbox[n]) :
                               /\ IsNone(inbox[n][k].hash)
                               /\ \E q \in DOMAIN resolved :
                                     resolved[q] = inbox[n][k])
                 => state'[n] = READY]_vars

\* preparation has ended with a cached node that has parameters SKIPPED
\* and another cached node READY
C23_Witness ==
    /\ phase = "execute"
    /\ pos = 1
    /\ \E n, m \in NodesOf(g) :
          /\ cached[n] /\ state[n] = SKIPPED /\ Len(g.nodes[n].params) > 0
          /\ cached[m] /\ state[m] = READY

(***************************************************************************)
(* C24: a cached node without output_name is never SKIPPED, and a run does *)
(* not end with an exception raised for a node that was EXECUTED only      *)
(* because the node produced no output.                                    *)
(***************************************************************************)
C24_CachedNodeWithoutOutputAlwaysRuns ==
    \A n \in NodesOf(g) :
      (cached[n] /\ IsNone(g.nodes[n].outName)) =>
         /\ state[n] # SKIPPED
         /\ ~(/\ phase = "done"
              /\ failure # "none"
              /\ pos <= Len(Order)
              /\ Order[pos] = n
              /\ state[n] = EXECUTED)

(***************************************************************************)
(* C25: when a cached node with an output becomes EXECUTED, the output     *)
(* hash of its NodeMeta is the hash of the file at its output path, that   *)
(* file holds the value its function has just returned, and for every      *)
(* argument that carried a hash the input hash stored for that parameter   *)
(* is that hash.                                                           *)
(***************************************************************************)
C25_ExecutedNodeMetaReflectsItsFiles ==
    [][\A n \in NodesOf(g) :
         (state[n] = RUNNING /\ state'[n] = EXECUTED
          /\ cached[n] /\ HasOutput(n)) =>
            /\ meta'[n].output_hash = get_file_hash(files', OutPath(n))
            /\ ~IsNone(meta'[n].output_hash)
            /\ files'[OutPath(n)] =
                  Some(function(n, [k \in DOMAIN args |->
                                     resolve_value(files, args[k])]))
            /\ \A k \in DOMAIN args :
                  ~IsNone(args[k].hash) =>
                     meta'[n].input_hashes[k] = args[k].hash]_vars

\* a cached node with an output was EXECUTED on an argument with a hash
C25_Witness ==
    \E n \in NodesOf(g) :
       /\ cached[n] /\ HasOutput(n) /\ state[n] = EXECUTED
       /\ ~IsNone(meta[n].output_hash)
       /\ \E k \in ParamNames(n) : ~IsNone(meta[n].input_hashes[k])

(***************************************************************************)
(* C26: when the function of a node with an output returns a value that    *)
(* does not conform to the declared return type, the node ends in ERROR    *)
(* and the run is aborted, and from the call of the function on no output  *)
(* file is written, no NodeMeta hash is updated, nothing is flushed and    *)
(* nothing is appended to any inbox.                                       *)
(***************************************************************************)
C26_InvalidOutputTypeAbortsCleanly ==
    [][(phase' = "with_value" \/ phase = "with_value") =>
         /\ files' = files
         /\ meta' = meta
         /\ disk' = disk
         /\ inbox' = inbox
         /\ wrote' = wrote
         /\ phase = "with_value" =>
               /\ state'[Order[pos]] = ERROR
               /\ phase' = "done"
               /\ failure' # "none"
               /\ \A n \in NodesOf(g) \ {Order[pos]} : state'[n] = state[n]]_vars

\* the run was aborted in a cached node that has successors, after its
\* function was called
C26_Witness ==
    /\ phase = "done"
    /\ failure = "RuntimeException"
    /\ pos <= Len(Order)
    /\ state[Order[pos]] = ERROR
    /\ Order[pos] \in invoked
    /\ cached[Order[pos]]
    /\ subsequent_node_ids(Order[pos]) # <<>>

(***************************************************************************)
(* C27: input resolution in the execution phase never binds one available  *)
(* DataInformation to two parameters of a node: when two parameters would  *)
(* each resolve to the same single entry of the node's inputs, resolution  *)
(* fails with a RuntimeException and the function is not invoked.          *)
(***************************************************************************)
DoubleBinding(n, node_inputs) ==
    \E a, b \in 1..Len(get_required_inputs(n)) :
       /\ a # b
       /\ Cardinality(Matching(n, get_required_inputs(n)[a], node_inputs)) = 1
       /\ Matching(n, get_required_inputs(n)[a], node_inputs)
            = Matching(n, get_required_inputs(n)[b], node_inputs)

C27_NoDoubleBinding ==
    [][(/\ phase = "execute"
        /\ pos <= Len(Order)
        /\ state[Order[pos]] = READY
        /\ DoubleBinding(Order[pos],
               inbox[Order[pos]]
                  \o get_available_file_inputs(files, Order[pos])))
       => /\ state'[Order[pos]] = ERROR
          /\ failure' = "RuntimeException"
          /\ invoked' = invoked]_vars

(***************************************************************************)
(* C28: an edge declared twice behaves like an edge declared once: in each *)
(* phase the successor's inbox receives a predecessor's output at most     *)
(* once, so the inbox never holds more entries than the node has           *)
(* predecessors, and the doubled output does not make the input ambiguous. *)
(***************************************************************************)
C28_DoubleEdgeDeliversOnce ==
    \A n \in NodesOf(g) : Len(inbox[n]) <= Cardinality(Predecessors(n))

(***************************************************************************)
(* C29: get_best_match returns a candidate of maximal score (name and type *)
(* 3, name 2, type 1, none 0): nothing when every candidate scores 0, an   *)
(* ambiguity error when two candidates tie at the maximal positive score,  *)
(* and otherwise the one candidate of maximal score, which a later         *)
(* candidate of lower score never replaces.                                *)
(***************************************************************************)
ScoreOf(i) == get_match(call.self, call.others[i], call.name_aliases)

BestScore ==
    IF call.others = <<>> THEN NONE
    ELSE CHOOSE m \in 0..3 :
            /\ \E i \in DOMAIN call.others : ScoreOf(i) = m
            /\ \A i \in DOMAIN call.others : ScoreOf(i) <= m

C29_BestMatchIsMaximal ==
    (ret # <<>> /\ call.op = "get_best_match") =>
       LET best == {i \in DOMAIN call.others : ScoreOf(i) = BestScore}
       IN IF BestScore = NONE
          THEN ~ret[1].raises /\ IsNone(ret[1].value)
          ELSE IF Cardinality(best) > 1
          THEN ret[1].raises
          ELSE /\ ~ret[1].raises
               /\ \E i \in best : ret[1].value = Some(call.others[i])

(***************************************************************************)
(* C30: after NamespaceMeta.update_from(nodes) the namespace holds exactly *)
(* one NodeMeta per persistent hash of the live nodes and none for any     *)
(* other hash; no entry is null; an entry whose hash was already stored    *)
(* keeps the stored input hashes of the keys the node still has; an entry  *)
(* of a new hash has no hash stored for any key.                           *)
(***************************************************************************)
C30_UpdateFromReconciles ==
    (ret # <<>> /\ call.op = "update_from") =>
       LET new_nodes == ret[1]
           live == {call.nodes[i].hash : i \in DOMAIN call.nodes}
       IN /\ \A i \in DOMAIN new_nodes : ~IsNone(new_nodes[i])
          /\ \A i \in DOMAIN new_nodes : Get(new_nodes[i]).hash \in live
          /\ \A h \in live :
                Cardinality({i \in DOMAIN new_nodes :
                                Get(new_nodes[i]).hash = h}) = 1
          /\ \A i \in DOMAIN new_nodes :
                LET m == Get(new_nodes[i])
                    old == get_node_meta(call.stored, m.hash)
                IN \A k \in DOMAIN m.input_hashes :
                      m.input_hashes[k] =
                         IF ~IsNone(old) /\ k \in DOMAIN Get(old).input_hashes
                         THEN Get(old).input_hashes[k] ELSE None

(***************************************************************************)
(* C31: the input-currency query is true iff the given hash is present and *)
(* equals the hash stored for that parameter; it is false when the given   *)
(* hash is missing, when nothing is stored for the parameter and when the  *)
(* stored hash is missing.                                                 *)
(***************************************************************************)
C31_CurrentIffStoredHashEqual ==
    (ret # <<>> /\ call.op = "is_current_input") =>
       LET stored == call.meta.input_hashes
       IN /\ ret[1] <=> (/\ call.hash # None
                         /\ call.name \in DOMAIN stored
                         /\ stored[call.name] = call.hash)
          /\ call.hash = None => ~ret[1]
          /\ call.name \notin DOMAIN stored => ~ret[1]
          /\ (call.name \in DOMAIN stored /\ stored[call.name] = None) => ~ret[1]

C31_Witness ==
    /\ ret = <<TRUE>>
    /\ call.op = "is_current_input"
    /\ call.hash # None
    /\ "y" \in DOMAIN call.meta.input_hashes

(***************************************************************************)
(* C32: graph construction terminates on every declared graph, shared      *)
(* successors and cycles included: the traversal pops at most once per     *)
(* root and once per declared edge.  The finished graph holds exactly one  *)
(* executor per node reachable from the roots and exactly one edge per     *)
(* declared (node, successor) pair, and the executors the topological sort *)
(* of the preparation phase yields are those the sort of the execution     *)
(* phase yields.                                                           *)
(***************************************************************************)
C32_OneExecutorPerReachableNode ==
    call.op = "build_graph" =>
       LET reachable == Descendants(Range(g.roots))
           edges == UNION {{<<u, i>> : i \in DOMAIN g.nodes[u].succ} :
                              u \in reachable}
       IN /\ ret.pops <= Len(g.roots) + Cardinality(edges)
          /\ ret.queue = <<>> =>
                /\ {ret.node[i].node : i \in DOMAIN ret.node} = reachable
                /\ Len(ret.node) = Cardinality(reachable)
                /\ \A u \in reachable :
                      /\ {ret.adj[u][i].node : i \in DOMAIN ret.adj[u]}
                            = Range(g.nodes[u].succ)
                      /\ Len(ret.adj[u]) = Cardinality(Range(g.nodes[u].succ))
          /\ Len(ret.sorted) = 2 =>
                /\ ret.sorted[1] = ret.sorted[2]
                /\ \A i, j \in DOMAIN ret.sorted[1].order :
                      ret.sorted[1].order[i].node = ret.sorted[1].order[j].node
                         => i = j

C32_Witness ==
    /\ call.op = "build_graph"
    /\ g.name = "Shortcut"
    /\ Len(ret.sorted) = 2
    /\ ~ret.sorted[2].cyclic
    /\ \E i \in DOMAIN ret.sorted[2].order :
          \E j \in DOMAIN ret.node :
             /\ ret.node[j].node = ret.sorted[2].order[i].node
             /\ ret.node[j].id # ret.sorted[2].order[i].id

(***************************************************************************)
(* C33: per-node validation reports a serializer message iff a supplied    *)
(* serializer binding does not implement the contract or one node-wide     *)
(* input serializer is given to a function of more than one parameter; a   *)
(* per-name mapping of conforming input serializers, or a conforming       *)
(* output serializer, gets no serializer message.                          *)
(***************************************************************************)
SerializerMessages ==
    {"output serializer", "input serializer",
     "multiple inputs but only one serializer"}

C33_SerializerMessageIffBadBinding ==
    (ret # <<>> /\ call.op = "NodeValidator.validate") =>
       LET nonconforming ==
               \/ call.output_serializer = Some("object")
               \/ /\ ~IsNone(call.input_serializers)
                  /\ \E i \in DOMAIN Get(call.input_serializers).items :
                        Get(call.input_serializers).items[i] # "DataSerializer"
           single_for_many ==
               /\ ~IsNone(call.input_serializers)
               /\ Get(call.input_serializers).form = "one"
               /\ call.parameters > 1
       IN (ret[1] \cap SerializerMessages # {})
             <=> (nonconforming \/ single_for_many)

(***************************************************************************)
(* C34: per-node validation reports the duplicate-alias message iff the    *)
(* same alias string occurs more than once among the alias values of       *)
(* input_aliases, flattened over all parameters; pairwise distinct alias   *)
(* values get no such message, whatever the parameter names are.           *)
(***************************************************************************)
C34_DuplicateMessageIffAliasRepeats ==
    (ret # <<>> /\ call.op = "NodeValidator.validate") =>
       LET aliases == IF IsNone(call.input_aliases) THEN <<>>
                      ELSE Get(call.input_aliases)
           occurrences(a) ==
               {<<k, i>> \in UNION {{<<k, i>> : i \in DOMAIN aliases[k].names} :
                                       k \in DOMAIN aliases} :
                   aliases[k].names[i] = a}
           repeated == \E a \in {"s", "t", "u"} : Cardinality(occurrences(a)) > 1
       IN ("Duplicate input aliases" \in ret[1]) <=> repeated

(***************************************************************************)
(* C35: a node that ends a run in ERROR has the NodeMeta it had when the   *)
(* run started: the run changed neither its stored input hashes nor its    *)
(* output hash.                                                            *)
(***************************************************************************)
C35_FailedNodeKeepsItsMeta ==
    RunEnded =>
       \A n \in NodesOf(g) : state[n] = ERROR => meta[n] = atStart[n]

(***************************************************************************)
(* C36: while the scheduler prepares and executes, the store holds the     *)
(* NamespaceMeta record of the running namespace and a NodeMeta entry for  *)
(* every node of the graph, on the first run and after a node was added:   *)
(* the record is created or updated before the preparation phase starts,   *)
(* so no query or update of a node's metadata finds it missing.            *)
(***************************************************************************)
C36_MetadataExistsBeforePreparation ==
    (call # <<>> /\ call.op = "MetadataProvider"
       /\ phase \in {"prepare", "execute"}) =>
       \A n \in Range(Order) : ~NodeExecutor_meta(n).raises

(***************************************************************************)
(* C37: after a run in which a cached producer and its cached consumer     *)
(* both reached EXECUTED, the hash stored in the consumer's NodeMeta for   *)
(* the parameter bound to the producer's output is the producer's output   *)
(* hash, and that is the hash the preparation phase of the next run        *)
(* computes from the producer's output file when the file is unchanged.    *)
(***************************************************************************)
\* parameter k of consumer c is the one the output of producer p is bound to
BoundTo(c, k, p) ==
    \E i \in 1..Len(get_required_inputs(c)) :
       /\ get_required_inputs(c)[i].name = k
       /\ ~IsNone(get_output_information(files, p).info)
       /\ match_static(get_required_inputs(c)[i],
                       Get(get_output_information(files, p).info),
                       get_input_aliases(c, k))

ExecutedPairs ==
    {pc \in NodesOf(g) \X NodesOf(g) :
        /\ pc[2] \in Range(g.nodes[pc[1]].succ)
        /\ cached[pc[1]] /\ cached[pc[2]] /\ HasOutput(pc[1])
        /\ state[pc[1]] = EXECUTED /\ state[pc[2]] = EXECUTED}

C37_ConsumerStoresProducersOutputHash ==
    (RunEnded /\ ChangesAfter(run) = {}) =>
       \A pc \in ExecutedPairs :
          /\ ~IsNone(meta[pc[1]].output_hash)
          /\ \A k \in ParamNames(pc[2]) :
                BoundTo(pc[2], k, pc[1]) =>
                   meta[pc[2]].input_hashes[k] = meta[pc[1]].output_hash
          /\ with_hash(files, Get(get_output_information(files, pc[1]).info)).hash
                = meta[pc[1]].output_hash

C37_Witness ==
    /\ RunEnded /\ ChangesAfter(run) = {}
    /\ \E pc \in ExecutedPairs : \E k \in ParamNames(pc[2]) :
          /\ BoundTo(pc[2], k, pc[1])
          /\ ~IsNone(meta[pc[2]].input_hashes[k])

(***************************************************************************)
(* C38: two distinct nodes of a graph never share a NodeMeta entry: the    *)
(* input hashes consulted for a node's skip decision are those its own     *)
(* executor stored, whatever another node stored, also when the two nodes  *)
(* have the same name, function and other stable attributes.               *)
(***************************************************************************)
C38_NodesDoNotShareMeta ==
    call.op = "NodeExecutor.meta" =>
       /\ node_meta_index(ret.nodes, call.nodes[1])
            # node_meta_index(ret.nodes, call.nodes[2])
       /\ \A i \in 1..2 :
             ret.nodes[node_meta_index(ret.nodes, call.nodes[i])].input_hashes
                = ret.own[i]

(***************************************************************************)
(* C39: the canonical "|"-joined string hashed by persistent_hash is       *)
(* injective on the tuple of stable attributes: two nodes that differ in   *)
(* at least one of name, is_cached, function name, output name, input      *)
(* directory, output directory or input aliases, one of them possibly      *)
(* having the attribute absent, never have the same canonical string.      *)
(***************************************************************************)
C39_CanonicalStringIsInjective ==
    (ret # <<>> /\ ret.of = "different") => ret.string # ret.other_string

(***************************************************************************)
(* C40: every built-in default serializer matches the extension it writes: *)
(* matches_file of the JSON, YAML, CSV, pickle and plain-text serializer,  *)
(* applied to the suffix (leading dot included) of a path that ends in its *)
(* get_file_extension(), is true, and the engine-scope resolver resolves   *)
(* the saved file back to that serializer.                                 *)
(***************************************************************************)
C40_SerializerMatchesItsExtension ==
    (call # <<>> /\ call.op = "resolve_serializer" /\ ret # <<>>) =>
        /\ ret.extension = get_file_extension(call.serializer)
        /\ ret.matches
        /\ ret.resolved = Some(call.serializer)

=============================================================================
